---- MODULE Spec2Model ----
(***************************************************************************)
(* A model of TinyTroupe's core: the episodic memory views, the agents,    *)
(* the worlds that dispatch their actions, and the transactional           *)
(* simulation trace (tinytroupe/agent.py, environment.py, control.py).     *)
(***************************************************************************)
EXTENDS Integers, Sequences, FiniteSets, TLC

VARIABLES
    mem,        \* the EpisodicMemory object under test
    retrieved,  \* what the last retrieval call on mem returned
    last,       \* the last operation: its name, arguments and the state before it
    proc,       \* the process: heaps, registries, simulation, cache files
    ops,        \* operations performed so far
    held,       \* an encoded agent state the program holds, if any
    run         \* the program being run a second time, and how far it is
vars == <<mem, retrieved, last, proc, ops, held, run>>

(***************************************************************************)
(* Bounds of the model                                                     *)
(***************************************************************************)
MaxMem == 10        \* events stored in the memory under test
MaxN == 3           \* largest first_n / last_n / prefix / lookback given

(***************************************************************************)
(* Python values                                                           *)
(***************************************************************************)
\* An optional argument: <<>> is None, <<v>> is the value v.
None == <<>>
Some(v) == <<v>>
IsNone(o) == o = <<>>
Val(o) == o[1]

Min(a, b) == IF a <= b THEN a ELSE b
Max(a, b) == IF a >= b THEN a ELSE b

\* s[:k] of a Python list: a negative k counts from the end.
PySliceTo(s, k) ==
    LET n == Len(s)
        stop == IF k >= 0 THEN Min(k, n) ELSE Max(n + k, 0)
    IN SubSeq(s, 1, stop)

\* s[k:] of a Python list: a negative k counts from the end, and -0 is 0.
PySliceFrom(s, k) ==
    LET n == Len(s)
        start == IF k >= 0 THEN Min(k, n) ELSE Max(n + k, 0)
    IN SubSeq(s, start + 1, n)

(***************************************************************************)
(* EpisodicMemory (agent.py)                                               *)
(***************************************************************************)
NoTimestamp == -1

MEMORY_BLOCK_OMISSION_INFO ==
    [role |-> "assistant",
     content |-> <<"Info: there were other messages here, but they were omitted for brevity.">>,
     simulation_timestamp |-> NoTimestamp]

DefaultPrefixLength == 100
DefaultLookbackLength == 100

EpisodicMemory(P, L) ==
    [fixed_prefix_length |-> P, lookback_length |-> L, memory |-> <<>>]

store(m, value) == [m EXCEPT !.memory = Append(@, value)]

count(m) == Len(m.memory)

omisssion_info(include_omission_info) ==
    IF include_omission_info THEN <<MEMORY_BLOCK_OMISSION_INFO>> ELSE <<>>

retrieve_all(m) == m.memory

\* retrieve_first(n, include_omission_info=True)
retrieve_first(m, n, include_omission_info) ==
    PySliceTo(m.memory, n) \o omisssion_info(include_omission_info)

\* retrieve_last(n, include_omission_info=True)
retrieve_last(m, n, include_omission_info) ==
    omisssion_info(include_omission_info) \o PySliceFrom(m.memory, 0 - n)

\* retrieve calls the two helpers with their default include_omission_info.
retrieve(m, first_n, last_n, include_omission_info) ==
    IF ~IsNone(first_n) /\ ~IsNone(last_n)
    THEN retrieve_first(m, Val(first_n), TRUE)
             \o omisssion_info(include_omission_info)
             \o retrieve_last(m, Val(last_n), TRUE)
    ELSE IF ~IsNone(first_n) THEN retrieve_first(m, Val(first_n), TRUE)
    ELSE IF ~IsNone(last_n) THEN retrieve_last(m, Val(last_n), TRUE)
    ELSE retrieve_all(m)

retrieve_recent(m, include_omission_info) ==
    LET fixed_prefix == PySliceTo(m.memory, m.fixed_prefix_length)
                            \o omisssion_info(include_omission_info)
        remaining_lookback == Min(Len(m.memory) - Len(fixed_prefix), m.lookback_length)
    IN IF remaining_lookback <= 0
       THEN fixed_prefix
       ELSE fixed_prefix \o PySliceFrom(m.memory, 0 - remaining_lookback)

(***************************************************************************)
(* The process: agents, worlds and the simulation control state.           *)
(* Objects live in heaps indexed by object ids; 0 is Python's None.        *)
(* Operations are functions from process state to process state; a raised  *)
(* exception is carried in the field exc and skips what follows it.        *)
(***************************************************************************)
NAgentObjs == 3     \* TinyPerson objects a process may construct
NWorldObjs == 2     \* TinyWorld objects a process may construct

AgentIds == 1..NAgentObjs
WorldIds == 1..NWorldObjs
NoneRef == 0

AgentNames == {"A", "B", "C"}
WorldNames == {"W", "V"}
NoneName == "<None>"            \* a name argument that is None
UnknownName == "Zed"            \* a name no agent carries
NoException == "none"

\* The persona configuration created by _post_init (agent.py 172-192).
InitialConfiguration(name) ==
    [name |-> name,
     age |-> None,
     relationships |-> <<>>,
     current_datetime |-> None,
     current_location |-> None,
     current_context |-> <<>>,
     current_attention |-> None,
     current_goals |-> <<>>,
     current_emotions |-> Some("Currently you feel calm and friendly."),
     currently_accessible_agents |-> <<>>]

\* A slot of the agent heap no object occupies yet.
NoAgent ==
    [alive |-> FALSE, name |-> NoneName, episodic_memory |-> EpisodicMemory(0, 0),
     _mental_faculties |-> <<>>, _configuration |-> InitialConfiguration(NoneName),
     _accessible_agents |-> <<>>, _actions_buffer |-> <<>>,
     _init_system_message |-> <<>>, environment |-> NoneRef, simulation_id |-> NoneName]

NoWorld ==
    [alive |-> FALSE, name |-> NoneName, kind |-> "TinyWorld", agents |-> <<>>,
     name_to_agent |-> [n \in AgentNames |-> NoneRef], current_datetime |-> 0,
     broadcast_if_no_target |-> TRUE, relations |-> <<>>, simulation_id |-> NoneName]

\* The answers the LLM will give: pending ones in order, then forever the same.
DoneResponse ==
    [wf |-> "ok", type |-> "DONE", content |-> <<"">>, target |-> NoneName,
     cognitive_state |-> [goals |-> "g", attention |-> "a", emotions |-> "e"]]
NoLLM == [pending |-> <<>>, forever |-> DoneResponse]

RetNone == [t |-> "None", id |-> NoneRef, v |-> <<>>]
RetAgent(id) == [t |-> "TinyPerson", id |-> id, v |-> <<>>]
RetWorld(w) == [t |-> "TinyWorld", id |-> w, v |-> <<>>]
RetJSON(v) == [t |-> "JSON", id |-> NoneRef, v |-> v]

CachePaths == {"f1", "f2"}
DefaultCachePath == "f1"

\* Simulation.__init__ (id "default").
NewSimulation ==
    [status |-> "stopped",
     agents |-> <<>>,
     name_to_agent |-> [n \in AgentNames |-> NoneRef],
     environments |-> <<>>,
     name_to_environment |-> [n \in WorldNames |-> NoneRef],
     cache_path |-> DefaultCachePath,
     auto_checkpoint |-> FALSE,
     has_unsaved_cache_changes |-> FALSE,
     _under_transaction |-> FALSE,
     cached_trace |-> <<>>,
     execution_trace |-> <<>>]

NoFiles == [f \in CachePaths |-> None]

\* The process right after the interpreter has loaded the modules, with the
\* cache files found on disk. simulation_created tells whether
\* _current_simulations["default"] holds a Simulation yet.
Process(files) ==
    [agents |-> [i \in AgentIds |-> NoAgent],
     all_agents |-> [n \in AgentNames |-> NoneRef],
     worlds |-> [w \in WorldIds |-> NoWorld],
     all_environments |-> [n \in WorldNames |-> NoneRef],
     simulation |-> NewSimulation,
     simulation_created |-> FALSE,
     current_simulation_id |-> NoneName,
     files |-> files,
     llm |-> NoLLM,
     deliveries |-> <<>>,
     dispatched |-> <<>>,
     direct_accessibility |-> FALSE,
     bodies |-> 0,
     exc |-> NoException,
     ret |-> RetNone]

FreshProcess == Process(NoFiles)

Raise(p, e) == [p EXCEPT !.exc = e]
Raised(p) == p.exc # NoException
Return(p, v) == IF Raised(p) THEN p ELSE [p EXCEPT !.ret = v]

\* Statement sequencing: F runs unless an exception is already propagating.
Then(p, F(_)) == IF Raised(p) THEN p ELSE F(p)
\* A local variable: v is computed once and named in F.
Bind(v, F(_)) == F(v)

\* The TinyPerson objects constructed so far.
Alive(p) == {a \in AgentIds : p.agents[a].alive}

Contains(s, x) == \E i \in 1..Len(s) : s[i] = x
\* list.remove(x): drops the first occurrence.
RemoveFirst(s, x) ==
    LET i == CHOOSE k \in 1..Len(s) : s[k] = x /\ \A j \in 1..(k - 1) : s[j] # x
    IN SubSeq(s, 1, i - 1) \o SubSeq(s, i + 1, Len(s))

\* name_or_empty(entity): "" for None.
name_or_empty_agent(p, id) == IF id = NoneRef THEN "" ELSE p.agents[id].name
name_or_empty_world(p, w) == IF w = NoneRef THEN "" ELSE p.worlds[w].name

(***************************************************************************)
(* Transactional calls. A call names the wrapped method, the object it is  *)
(* called on, at most one agent passed as argument, and its other values.  *)
(***************************************************************************)
Call(fn, kind, self, other, val) ==
    [fn |-> fn, kind |-> kind, self |-> self, other |-> other, val |-> val]

\* Transaction(...).execute() as the @transactional wrapper runs it; defined below.
RECURSIVE Exec(_, _)

(***************************************************************************)
(* TinyPerson (agent.py)                                                   *)
(***************************************************************************)
\* iso_datetime(): the environment's clock, or None.
iso_datetime(p, a) ==
    IF p.agents[a].environment # NoneRef
    THEN p.worlds[p.agents[a].environment].current_datetime
    ELSE NoTimestamp

\* generate_agent_prompt(): the rendering of the configuration and the faculties.
generate_agent_prompt(ag) == <<ag._configuration, ag._mental_faculties>>

reset_prompt(p, a) ==
    [p EXCEPT !.agents[a]._init_system_message = generate_agent_prompt(p.agents[a])]

Stimulus(type, text, source) == <<"stimuli", type, source>> \o text

\* An _observe that stores the stimulus as the agent's own (assistant) event.
observe_body_as_assistant(p, a, stimulus) ==
    Return([p EXCEPT !.agents[a].episodic_memory =
                         store(@, [role |-> "assistant", content |-> stimulus,
                                   simulation_timestamp |-> iso_datetime(p, a)]),
                     !.deliveries = Append(@, a)],
           RetAgent(a))

\* _observe: store one user event holding the stimulus.
observe_body(p, a, stimulus) ==
    LET ev == [role |-> "user", content |-> stimulus,
               simulation_timestamp |-> iso_datetime(p, a)]
        q == [p EXCEPT !.agents[a].episodic_memory = store(@, ev),
                       !.deliveries = Append(@, a)]
    IN Return(q, RetAgent(a))

observe(p, a, stimulus) == Exec(p, Call("_observe", "TinyPerson", a, NoneRef, stimulus))

\* listen (transactional) and socialize, think (plain) all go through _observe.
listen_body(p, a, speech, source) ==
    observe(p, a, Stimulus("CONVERSATION", speech, name_or_empty_agent(p, source)))

listen(p, a, speech, source) ==
    Exec(p, Call("listen", "TinyPerson", a, source, speech))

socialize(p, a, social_description, source_name) ==
    observe(p, a, Stimulus("SOCIAL", social_description, source_name))

think(p, a, thought) ==
    observe(p, a, Stimulus("THOUGHT", thought, name_or_empty_agent(p, a)))

see(p, a, visual_description, source) ==
    observe(p, a, Stimulus("VISUAL", visual_description, name_or_empty_agent(p, source)))

internalize_goal(p, a, goal) ==
    observe(p, a, Stimulus("INTERNAL_GOAL_FORMULATION", goal, name_or_empty_agent(p, a)))

\* define(key, value) with group=None, for the key "age".
define_body(p, a, value) ==
    Return(reset_prompt([p EXCEPT !.agents[a]._configuration.age = Some(value)], a), RetNone)

\* define_relationships(relationships, replace): relationships is a list of
\* records or a single dict with val[1] keys.
define_relationships_body(p, a, shape, rels, replace) ==
    IF replace /\ shape = "list"
    THEN [p EXCEPT !.agents[a]._configuration.relationships = rels]
    ELSE IF ~replace
    THEN IF shape = "list"
         THEN [p EXCEPT !.agents[a]._configuration.relationships = @ \o rels]
         ELSE IF Len(rels[1]) = 2
         THEN [p EXCEPT !.agents[a]._configuration.relationships = Append(@, rels[1])]
         ELSE Raise(p, "Exception")
    ELSE Raise(p, "Exception")

make_agent_accessible_body(p, a, agent, relation_description) ==
    IF ~Contains(p.agents[a]._accessible_agents, agent)
    THEN LET q == [p EXCEPT !.agents[a]._accessible_agents = Append(@, agent)]
         IN IF agent = NoneRef
            THEN Raise(q, "AttributeError")     \* None has no attribute name
            ELSE [q EXCEPT !.agents[a]._configuration.currently_accessible_agents =
                     Append(@, [name |-> q.agents[agent].name,
                                relation_description |-> relation_description])]
    ELSE IF agent = NoneRef THEN Raise(p, "AttributeError")  \* the warning reads agent.name
    ELSE p

DefaultRelationDescription == "An agent I can currently interact with."

make_agent_accessible(p, a, agent) ==
    Exec(p, Call("make_agent_accessible", "TinyPerson", a, agent, <<>>))

make_agent_inaccessible_body(p, a, agent) ==
    IF Contains(p.agents[a]._accessible_agents, agent)
    THEN [p EXCEPT !.agents[a]._accessible_agents = RemoveFirst(@, agent)]
    ELSE IF agent = NoneRef THEN Raise(p, "AttributeError")
    ELSE p

make_all_agents_inaccessible_body(p, a) ==
    [p EXCEPT !.agents[a]._accessible_agents = <<>>,
              !.agents[a]._configuration.currently_accessible_agents = <<>>]

make_all_agents_inaccessible(p, a) ==
    Exec(p, Call("make_all_agents_inaccessible", "TinyPerson", a, NoneRef, <<>>))

\* A pop_latest_actions that hands the actions out without emptying the buffer.
pop_latest_actions_keeping(p, a) ==
    Return(p, RetJSON(p.agents[a]._actions_buffer))

pop_latest_actions_body(p, a) ==
    LET actions == p.agents[a]._actions_buffer
    IN Return([p EXCEPT !.agents[a]._actions_buffer = <<>>], RetJSON(actions))

pop_latest_actions(p, a) ==
    Exec(p, Call("pop_latest_actions", "TinyPerson", a, NoneRef, <<>>))

(***************************************************************************)
(* Acting. The language model is an oracle: a script of responses consumed *)
(* in order, followed by one response repeated for ever.                   *)
(***************************************************************************)
MAX_ACTIONS_BEFORE_DONE == 15
ActRetries == 5

Action(r) == [type |-> r.type, content |-> r.content, target |-> r.target]

\* The parsed response as stored in the assistant event.
ResponseContent(r) ==
    (IF r.wf = "no_action" THEN <<>> ELSE <<"action", r.type, r.target>> \o r.content)
    \o (IF r.wf = "no_cognitive_state" THEN <<>>
        ELSE <<"cognitive_state", r.cognitive_state.goals,
               r.cognitive_state.attention, r.cognitive_state.emotions>>)

NextResponse(p) == IF p.llm.pending # <<>> THEN Head(p.llm.pending) ELSE p.llm.forever

send_message(p) ==
    IF p.llm.pending # <<>> THEN [p EXCEPT !.llm.pending = Tail(@)] ELSE p

\* send_message returns None when the request fails for good; indexing None
\* then raises TypeError.
produce_message_body(p, a) ==
    LET r == NextResponse(p)
    IN IF r.wf = "none" THEN Raise(send_message(reset_prompt(p, a)), "TypeError")
       ELSE Return(send_message(reset_prompt(p, a)), RetJSON(<<r>>))

produce_message(p, a) ==
    Exec(p, Call("_produce_message", "TinyPerson", a, NoneRef, <<>>))

pretty_datetime(t) == Some(<<"pretty", t>>)

\* _update_cognitive_state(goals, attention, emotions) as act calls it.
update_cognitive_state_body(p, a, cs) ==
    LET env == p.agents[a].environment
        q == IF env # NoneRef /\ p.worlds[env].current_datetime # NoTimestamp
             THEN [p EXCEPT !.agents[a]._configuration.current_datetime =
                                pretty_datetime(p.worlds[env].current_datetime)]
             ELSE p
    IN Return(reset_prompt(
           [q EXCEPT !.agents[a]._configuration.current_goals = <<cs.goals>>,
                     !.agents[a]._configuration.current_attention = Some(cs.attention),
                     !.agents[a]._configuration.current_emotions = Some(cs.emotions)], a),
         RetNone)

update_cognitive_state(p, a, cs) ==
    Exec(p, Call("_update_cognitive_state", "TinyPerson", a, NoneRef,
                 <<cs.goals, cs.attention, cs.emotions>>))

\* One attempt of aux_act_once. On success p.ret carries the content appended
\* to contents; a response missing a key raises KeyError after its event was stored.
StoreResponse(p, a) ==
    LET r == p.ret.v[1]
        q == [p EXCEPT !.agents[a].episodic_memory =
                 store(@, [role |-> "assistant", content |-> ResponseContent(r),
                           simulation_timestamp |-> iso_datetime(p, a)])]
    IN IF r.wf # "ok" THEN Raise(q, "KeyError")
       ELSE LET q2 == update_cognitive_state(
                         [q EXCEPT !.agents[a]._actions_buffer = Append(@, Action(r))],
                         a, r.cognitive_state)
            IN Return(q2, RetJSON(<<r>>))

aux_act_once_attempt(p, a) ==
    LET q1 == think(p, a, <<"I will now act a bit, and then issue DONE.">>)
        q2 == Then(q1, LAMBDA q : produce_message(q, a))
    IN Then(q2, LAMBDA q : StoreResponse(q, a))

\* Variant: the step is attempted once, whatever it raises.
aux_act_once_unretried(p, a, attempt) == aux_act_once_attempt(p, a)

\* repeat_on_error(retries=5, exceptions=[KeyError]) around aux_act_once.
RECURSIVE aux_act_once(_, _, _)
aux_act_once(p, a, attempt) ==
    Bind(aux_act_once_attempt(p, a), LAMBDA q :
        IF q.exc = "KeyError" /\ attempt < ActRetries
        THEN aux_act_once([q EXCEPT !.exc = NoException], a, attempt + 1)
        ELSE q)

\* Variant: repetition is never detected.
LastThreeEqual_never(contents) == FALSE

LastThreeEqual(contents) ==
    LET n == Len(contents)
    IN Action(contents[n]) = Action(contents[n - 1])
       /\ Action(contents[n - 1]) = Action(contents[n - 2])

\* Variant: a DONE action does not end the loop, only the two guards do.
RECURSIVE act_loop_ignoring_done(_, _, _)
act_loop_ignoring_done(p, a, contents) ==
    IF Raised(p) THEN p
    ELSE IF Len(contents) > MAX_ACTIONS_BEFORE_DONE THEN Return(p, RetJSON(contents))
    ELSE IF Len(contents) > 4 /\ LastThreeEqual(contents) THEN Return(p, RetJSON(contents))
    ELSE Then(aux_act_once(p, a, 1),
              LAMBDA q : act_loop_ignoring_done(q, a, Append(contents, q.ret.v[1])))

\* The until_done loop of act; contents is the loop's local list.
RECURSIVE act_loop(_, _, _)
act_loop(p, a, contents) ==
    IF Raised(p) THEN p
    ELSE IF Len(contents) = 0 \/ contents[Len(contents)].type # "DONE"
    THEN IF Len(contents) > MAX_ACTIONS_BEFORE_DONE THEN Return(p, RetJSON(contents))
         ELSE IF Len(contents) > 4 /\ LastThreeEqual(contents)
         THEN Return(p, RetJSON(contents))
         ELSE Then(aux_act_once(p, a, 1),
                   LAMBDA q : act_loop(q, a, Append(contents, q.ret.v[1])))
    ELSE Return(p, RetJSON(contents))

\* Variant: the list of actions is never handed back.
act_body_returning_none(p, a, return_actions) == Return(act_loop(p, a, <<>>), RetNone)

act_body(p, a, return_actions) ==
    Then(act_loop(p, a, <<>>), LAMBDA q : IF return_actions THEN q ELSE Return(q, RetNone))

act(p, a, return_actions) ==
    Exec(p, Call("act", "TinyPerson", a, NoneRef, <<return_actions>>))

\* listen_and_act(speech, return_actions): listen, then act until done.
listen_and_act_body(p, a, speech, return_actions) ==
    Then(listen(p, a, speech, NoneRef), LAMBDA q : act(q, a, return_actions))

listen_and_act(p, a, speech, return_actions) ==
    Exec(p, Call("listen_and_act", "TinyPerson", a, NoneRef, <<return_actions>> \o speech))

\* see_and_act and think_and_act: perceive, then act until done.
see_and_act_body(p, a, visual_description, return_actions) ==
    Then(see(p, a, visual_description, NoneRef), LAMBDA q : act(q, a, return_actions))

see_and_act(p, a, visual_description, return_actions) ==
    Exec(p, Call("see_and_act", "TinyPerson", a, NoneRef,
                 <<return_actions>> \o visual_description))

think_and_act_body(p, a, thought, return_actions) ==
    Then(think(p, a, thought), LAMBDA q : act(q, a, return_actions))

think_and_act(p, a, thought, return_actions) ==
    Exec(p, Call("think_and_act", "TinyPerson", a, NoneRef, <<return_actions>> \o thought))

(***************************************************************************)
(* TinyWorld and TinySocialNetwork (environment.py)                        *)
(***************************************************************************)
\* add_agent: membership is by identity, uniqueness by name.
add_agent(p, w, a) ==
    IF ~Contains(p.worlds[w].agents, a)
    THEN IF p.worlds[w].name_to_agent[p.agents[a].name] = NoneRef
         THEN [p EXCEPT !.agents[a].environment = w,
                        !.worlds[w].agents = Append(@, a),
                        !.worlds[w].name_to_agent[p.agents[a].name] = a]
         ELSE Raise(p, "ValueError")
    ELSE p

remove_agent(p, w, a) ==
    IF ~Contains(p.worlds[w].agents, a) THEN Raise(p, "ValueError")
    ELSE LET q == [p EXCEPT !.worlds[w].agents = RemoveFirst(@, a)]
         IN IF q.worlds[w].name_to_agent[q.agents[a].name] = NoneRef
            THEN Raise(q, "KeyError")
            ELSE [q EXCEPT !.worlds[w].name_to_agent[q.agents[a].name] = NoneRef]

remove_all_agents(p, w) ==
    [p EXCEPT !.worlds[w].agents = <<>>,
              !.worlds[w].name_to_agent = [n \in AgentNames |-> NoneRef]]

\* get_agent_by_name: the registered agent, or None.
get_agent_by_name(p, w, name) ==
    IF name \in AgentNames THEN p.worlds[w].name_to_agent[name] ELSE NoneRef

is_in_relation_with(p, w, agent_1, agent_2) ==
    Contains(p.worlds[w].relations, <<agent_1, agent_2>>)
    \/ Contains(p.worlds[w].relations, <<agent_2, agent_1>>)

handle_reach_out(p, w, source, content, target) ==
    Exec(p, Call("_handle_reach_out", p.worlds[w].kind, w, source, <<target>> \o content))

handle_talk(p, w, source, content, target) ==
    Exec(p, Call("_handle_talk", "TinyWorld", w, source, <<target>> \o content))

broadcast(p, w, speech, source) ==
    Exec(p, Call("broadcast", "TinyWorld", w, source, speech))

\* A REACH_OUT handler that grants access in one direction only.
handle_reach_out_one_way(p, w, source_agent, content, target) ==
    Return(make_agent_accessible(p, source_agent, get_agent_by_name(p, w, target)), RetNone)

\* TinyWorld._handle_reach_out: always succeeds.
handle_reach_out_body(p, w, source_agent, content, target) ==
    LET target_agent == get_agent_by_name(p, w, target)
        world_name == name_or_empty_world(p, w)
        q1 == make_agent_accessible(p, source_agent, target_agent)
        q2 == Then(q1, LAMBDA q : make_agent_accessible(q, target_agent, source_agent))
        q3 == Then(q2, LAMBDA q : socialize(q, source_agent,
                  <<name_or_empty_agent(q, target_agent),
                    " was successfully reached out, and is now available for interaction.">>,
                  world_name))
        q4 == Then(q3, LAMBDA q : socialize(q, target_agent,
                  <<name_or_empty_agent(q, source_agent),
                    " reached out to you, and is now available for interaction.">>,
                  world_name))
    IN Return(q4, RetNone)

\* A social-network REACH_OUT handler that does not look at the relations.
sn_handle_reach_out_unchecked(p, w, source_agent, content, target) ==
    Exec(p, Call("_handle_reach_out", "TinyWorld", w, source_agent, <<target>> \o content))

\* TinySocialNetwork._handle_reach_out: only within a relation.
sn_handle_reach_out_body(p, w, source_agent, content, target) ==
    LET q1 == IF is_in_relation_with(p, w, source_agent, get_agent_by_name(p, w, target))
              THEN Exec(p, Call("_handle_reach_out", "TinyWorld", w, source_agent,
                                <<target>> \o content))
              ELSE p
        q2 == Then(q1, LAMBDA q : socialize(q, source_agent,
                  <<target, " is not in the same relation as you, so you cannot reach out to them.">>,
                  name_or_empty_world(q, w)))
    IN Return(q2, RetNone)

handle_talk_body(p, w, source_agent, content, target) ==
    LET target_agent == get_agent_by_name(p, w, target)
        q == IF target_agent # NoneRef THEN listen(p, target_agent, content, source_agent)
             ELSE IF p.worlds[w].broadcast_if_no_target
             THEN broadcast(p, w, content, source_agent)
             ELSE p
    IN Return(q, RetNone)

\* broadcast: every agent of the world but the source listens, in list order.
RECURSIVE broadcast_loop(_, _, _, _, _)
broadcast_loop(p, w, speech, source, i) ==
    IF Raised(p) \/ i > Len(p.worlds[w].agents) THEN p
    ELSE LET agent == p.worlds[w].agents[i]
             q == IF agent # source
                  THEN listen(p, agent, speech, source)
                  ELSE p
         IN broadcast_loop(q, w, speech, source, i + 1)

\* A broadcast that delivers to the source as well.
broadcast_body_to_all(p, w, speech, source) ==
    Return(broadcast_loop(p, w, speech, NoneRef, 1), RetNone)

broadcast_body(p, w, speech, source) ==
    Return(broadcast_loop(p, w, speech, source, 1), RetNone)

\* _handle_actions: REACH_OUT and TALK are dispatched, everything else ignored.
RECURSIVE handle_actions_loop(_, _, _, _, _)
handle_actions_loop(p, w, source, actions, i) ==
    IF Raised(p) \/ i > Len(actions) THEN p
    ELSE LET action == actions[i]
             p1 == [p EXCEPT !.dispatched = Append(@, [source |-> source, action |-> action])]
             q == IF action.type = "REACH_OUT"
                  THEN handle_reach_out(p1, w, source, action.content, action.target)
                  ELSE IF action.type = "TALK"
                  THEN handle_talk(p1, w, source, action.content, action.target)
                  ELSE p1
         IN handle_actions_loop(q, w, source, actions, i + 1)

handle_actions_body(p, w, source, actions) ==
    Return(handle_actions_loop(p, w, source, actions, 1), RetNone)

handle_actions(p, w, source, actions) ==
    Exec(p, Call("_handle_actions", "TinyWorld", w, source, actions))

\* agents_actions[agent.name] = actions
DictSet(d, k, v) ==
    IF \E i \in 1..Len(d) : d[i][1] = k
    THEN [i \in 1..Len(d) |-> IF d[i][1] = k THEN <<k, v>> ELSE d[i]]
    ELSE Append(d, <<k, v>>)

\* _advance_datetime: the clock is a count of ticks, NoTimestamp when it is None.
advance_datetime(p, w, timedelta) ==
    IF IsNone(timedelta) THEN p
    ELSE IF p.worlds[w].current_datetime = NoTimestamp THEN Raise(p, "TypeError")
    ELSE [p EXCEPT !.worlds[w].current_datetime = @ + Val(timedelta)]

RECURSIVE handle_all_actions(_, _, _)
handle_all_actions(p, w, i) ==
    IF Raised(p) \/ i > Len(p.worlds[w].agents) THEN p
    ELSE handle_all_actions(
             Then(pop_latest_actions(p, p.worlds[w].agents[i]),
                  LAMBDA q : handle_actions(q, w, p.worlds[w].agents[i], q.ret.v)),
             w, i + 1)

\* A step that lets the agents act before it dispatches anything: the
\* actions of all are handled once the last agent has acted.
RECURSIVE step_loop_acting_first(_, _, _, _)
step_loop_acting_first(p, w, i, agents_actions) ==
    IF Raised(p) THEN p
    ELSE IF i > Len(p.worlds[w].agents)
    THEN Return(handle_all_actions(p, w, 1), RetJSON(agents_actions))
    ELSE LET agent == p.worlds[w].agents[i]
         IN Then(act(p, agent, TRUE), LAMBDA q1 :
                step_loop_acting_first(q1, w, i + 1,
                    DictSet(agents_actions, p.agents[agent].name, q1.ret.v)))

\* The loop of TinyWorld._step: each agent acts, then its actions are handled.
RECURSIVE step_loop(_, _, _, _)
step_loop(p, w, i, agents_actions) ==
    IF Raised(p) THEN p
    ELSE IF i > Len(p.worlds[w].agents) THEN Return(p, RetJSON(agents_actions))
    ELSE LET agent == p.worlds[w].agents[i]
         IN Then(act(p, agent, TRUE), LAMBDA q1 :
                step_loop(Then(pop_latest_actions(q1, agent),
                               LAMBDA q : handle_actions(q, w, agent, q.ret.v)),
                          w, i + 1, DictSet(agents_actions, p.agents[agent].name, q1.ret.v)))

step_body(p, w, timedelta_per_step) ==
    Then(advance_datetime(p, w, timedelta_per_step), LAMBDA q : step_loop(q, w, 1, <<>>))

\* TinySocialNetwork.add_relation: the agents join the agents list only.
add_relation_body(p, w, agent_1, agent_2) ==
    LET l1 == IF Contains(p.worlds[w].agents, agent_1) THEN p.worlds[w].agents
              ELSE Append(p.worlds[w].agents, agent_1)
        l2 == IF Contains(l1, agent_2) THEN l1 ELSE Append(l1, agent_2)
    IN Return([p EXCEPT !.worlds[w].agents = l2,
                        !.worlds[w].relations = Append(@, <<agent_1, agent_2>>)],
              RetWorld(w))

RECURSIVE clear_accessibility_loop(_, _, _)
clear_accessibility_loop(p, w, i) ==
    IF Raised(p) \/ i > Len(p.worlds[w].agents) THEN p
    ELSE clear_accessibility_loop(make_all_agents_inaccessible(p, p.worlds[w].agents[i]), w, i + 1)

RECURSIVE relations_loop(_, _, _)
relations_loop(p, w, i) ==
    IF Raised(p) \/ i > Len(p.worlds[w].relations) THEN p
    ELSE LET r == p.worlds[w].relations[i]
             q1 == make_agent_accessible(p, r[1], r[2])
             q2 == Then(q1, LAMBDA q : make_agent_accessible(q, r[2], r[1]))
         IN relations_loop(q2, w, i + 1)

update_agents_contexts_body(p, w) ==
    Return(Then(clear_accessibility_loop(p, w, 1), LAMBDA q : relations_loop(q, w, 1)), RetNone)

\* TinySocialNetwork._step(): contexts first, then the inherited step.
sn_step_body(p, w) ==
    LET q1 == Exec(p, Call("_update_agents_contexts", "TinySocialNetwork", w, NoneRef, <<>>))
        q2 == Then(q1, LAMBDA q : Exec(q, Call("_step", "TinyWorld", w, NoneRef, <<None>>)))
    IN Return(q2, RetNone)

\* world._step(timedelta_per_step) as a caller invokes it: the subclass's
\* override takes no argument.
step(p, w, timedelta_per_step) ==
    Exec(p, Call("_step", p.worlds[w].kind, w, NoneRef,
                 IF p.worlds[w].kind = "TinySocialNetwork" /\ IsNone(timedelta_per_step)
                 THEN <<>> ELSE <<timedelta_per_step>>))

\* The loop of TinyWorld.run: every step is self._step(timedelta_per_step=...),
\* the keyword being passed whatever its value and whatever the class.
RECURSIVE run_loop(_, _, _, _, _)
run_loop(p, w, steps, timedelta_per_step, agents_actions_over_time) ==
    IF Raised(p) THEN p
    ELSE IF steps = 0 THEN Return(p, RetJSON(agents_actions_over_time))
    ELSE Then(Exec(p, Call("_step", p.worlds[w].kind, w, NoneRef, <<timedelta_per_step>>)),
              LAMBDA q : run_loop(q, w, steps - 1, timedelta_per_step,
                                  Append(agents_actions_over_time, q.ret)))

run_body(p, w, steps, timedelta_per_step, return_actions) ==
    Then(run_loop(p, w, steps, timedelta_per_step, <<>>),
         LAMBDA q : IF return_actions THEN q ELSE Return(q, RetNone))

\* world.run(steps, timedelta_per_step, return_actions) as a caller invokes it.
run_steps(p, w, steps, timedelta_per_step, return_actions) ==
    Exec(p, Call("run", p.worlds[w].kind, w, NoneRef,
                 <<steps, timedelta_per_step, return_actions>>))

(***************************************************************************)
(* Complete-state encoding and decoding (agent.py, environment.py)         *)
(***************************************************************************)
\* JsonSerializableRegistry.to_json / from_json of the memory and of a faculty.
memory_to_json(m) ==
    [json_serializable_class_name |-> "EpisodicMemory",
     fixed_prefix_length |-> m.fixed_prefix_length,
     lookback_length |-> m.lookback_length,
     memory |-> m.memory]

memory_from_json(j) ==
    [fixed_prefix_length |-> j.fixed_prefix_length,
     lookback_length |-> j.lookback_length,
     memory |-> j.memory]

faculty_to_json(f) == [json_serializable_class_name |-> "Faculty", name |-> f]

\* TinyPerson.get_agent_by_name: the global registry, None when absent.
TinyPerson_get_agent_by_name(p, name) ==
    IF name \in AgentNames THEN p.all_agents[name] ELSE NoneRef

TinyWorld_get_environment_by_name(p, name) ==
    IF name \in WorldNames THEN p.all_environments[name] ELSE NoneRef

\* Reading agent.name of every accessible agent fails when one of them is None.
AgentEncodable(p, a) ==
    \A i \in 1..Len(p.agents[a]._accessible_agents) :
        p.agents[a]._accessible_agents[i] # NoneRef

agent_encode_complete_state(p, a) ==
    LET ag == p.agents[a]
    IN [name |-> ag.name,
        episodic_memory |-> memory_to_json(ag.episodic_memory),
        _mental_faculties |->
            [i \in 1..Len(ag._mental_faculties) |-> faculty_to_json(ag._mental_faculties[i])],
        _configuration |-> ag._configuration,
        _accessible_agents |->
            [i \in 1..Len(ag._accessible_agents) |-> p.agents[ag._accessible_agents[i]].name],
        _actions_buffer |-> ag._actions_buffer,
        _init_system_message |-> ag._init_system_message,
        simulation_id |-> ag.simulation_id]

\* decode_complete_state: accessible agents are looked up by name in the global
\* registry; the faculties loop indexes the state by the live list's positions.
agent_decode_complete_state(p, a, state) ==
    LET q == [p EXCEPT
                !.agents[a]._accessible_agents =
                    [i \in 1..Len(state._accessible_agents) |->
                        TinyPerson_get_agent_by_name(p, state._accessible_agents[i])],
                !.agents[a].episodic_memory = memory_from_json(state.episodic_memory)]
    IN IF Len(p.agents[a]._mental_faculties) > Len(state._mental_faculties)
       THEN Raise(q, "IndexError")
       ELSE [q EXCEPT !.agents[a].name = state.name,
                      !.agents[a]._configuration = state._configuration,
                      !.agents[a]._actions_buffer = state._actions_buffer,
                      !.agents[a]._init_system_message = state._init_system_message,
                      !.agents[a].simulation_id = state.simulation_id]

isoformat(t) == <<"iso", t>>
fromisoformat(x) == x[2]

WorldEncodable(p, w) ==
    /\ p.worlds[w].current_datetime # NoTimestamp
    /\ \A i \in 1..Len(p.worlds[w].agents) : AgentEncodable(p, p.worlds[w].agents[i])

world_encode_complete_state(p, w) ==
    LET wd == p.worlds[w]
    IN [name |-> wd.name,
        broadcast_if_no_target |-> wd.broadcast_if_no_target,
        simulation_id |-> wd.simulation_id,
        agents |-> [i \in 1..Len(wd.agents) |-> agent_encode_complete_state(p, wd.agents[i])],
        current_datetime |-> isoformat(wd.current_datetime)]

\* The loop of TinyWorld.decode_complete_state restoring the agents in place.
RECURSIVE world_decode_agents(_, _, _, _)
world_decode_agents(p, w, agent_states, i) ==
    IF Raised(p) \/ i > Len(agent_states) THEN p
    ELSE LET agent == TinyPerson_get_agent_by_name(p, agent_states[i].name)
         IN IF agent = NoneRef THEN Raise(p, "ValueError")
            ELSE Bind(Then(agent_decode_complete_state(p, agent, agent_states[i]),
                           LAMBDA q : add_agent(q, w, agent)),
                      LAMBDA q2 : IF Raised(q2) THEN Raise(q2, "ValueError")
                                  ELSE world_decode_agents(q2, w, agent_states, i + 1))

world_decode_complete_state(p, w, state) ==
    Then(world_decode_agents(remove_all_agents(p, w), w, state.agents, 1), LAMBDA q :
        [q EXCEPT !.worlds[w].name = state.name,
                  !.worlds[w].broadcast_if_no_target = state.broadcast_if_no_target,
                  !.worlds[w].simulation_id = state.simulation_id,
                  !.worlds[w].current_datetime = fromisoformat(state.current_datetime)])

(***************************************************************************)
(* Simulation and Transaction (control.py)                                 *)
(***************************************************************************)
\* current_simulation(): the Simulation of the current id, or None.
HasCurrentSimulation(p) == p.current_simulation_id # NoneName

SimulationEncodable(p) ==
    /\ \A i \in 1..Len(p.simulation.agents) : AgentEncodable(p, p.simulation.agents[i])
    /\ \A i \in 1..Len(p.simulation.environments) :
           WorldEncodable(p, p.simulation.environments[i])

encode_simulation_state(p) ==
    [agents |-> [i \in 1..Len(p.simulation.agents) |->
                    agent_encode_complete_state(p, p.simulation.agents[i])],
     environments |-> [i \in 1..Len(p.simulation.environments) |->
                    world_encode_complete_state(p, p.simulation.environments[i])]]

RECURSIVE decode_environments(_, _, _)
decode_environments(p, states, i) ==
    IF Raised(p) \/ i > Len(states) THEN p
    ELSE LET environment == p.simulation.name_to_environment[states[i].name]
         IN IF environment = NoneRef THEN Raise(p, "ValueError")
            ELSE Bind(world_decode_complete_state(p, environment, states[i]),
                      LAMBDA q : IF Raised(q) THEN Raise(q, "ValueError")
                                 ELSE decode_environments(q, states, i + 1))

RECURSIVE decode_agents(_, _, _)
decode_agents(p, states, i) ==
    IF Raised(p) \/ i > Len(states) THEN p
    ELSE LET agent == p.simulation.name_to_agent[states[i].name]
         IN IF agent = NoneRef THEN Raise(p, "ValueError")
            ELSE Bind(agent_decode_complete_state(p, agent, states[i]),
                      LAMBDA q : IF Raised(q) THEN Raise(q, "ValueError")
                                 ELSE decode_agents(q, states, i + 1))

decode_simulation_state(p, state) ==
    Then(decode_environments(p, state.environments, 1),
         LAMBDA q : decode_agents(q, state.agents, 1))

\* Simulation.add_agent / add_environment.
simulation_add_agent(p, a) ==
    IF p.simulation.name_to_agent[p.agents[a].name] # NoneRef THEN Raise(p, "ValueError")
    ELSE [p EXCEPT !.agents[a].simulation_id = "default",
                   !.simulation.agents = Append(@, a),
                   !.simulation.name_to_agent[p.agents[a].name] = a]

simulation_add_environment(p, w) ==
    IF p.simulation.name_to_environment[p.worlds[w].name] # NoneRef THEN Raise(p, "ValueError")
    ELSE [p EXCEPT !.worlds[w].simulation_id = "default",
                   !.simulation.environments = Append(@, w),
                   !.simulation.name_to_environment[p.worlds[w].name] = w]

\* str((function_name, args, kwargs)): objects print as Class(name='...').
function_call_hash(p, call) ==
    <<call.fn,
      IF call.kind = "TinyPerson" THEN name_or_empty_agent(p, call.self)
                                  ELSE name_or_empty_world(p, call.self),
      IF call.other = NoneRef THEN NoneName ELSE p.agents[call.other].name,
      call.val>>

execution_trace_position(p) == Len(p.simulation.execution_trace) - 1

\* Nodes are (prev_node_hash, event_hash, event_output, state).
Node(prev, event_hash, event_output, state) ==
    [prev_node_hash |-> prev, event_hash |-> event_hash,
     event_output |-> event_output, state |-> state]

custom_hash(node) == Some(<<node.event_hash, node.event_output>>)

\* Equality of two event hashes, field by field.
HashEq(h1, h2) == h1[1] = h2[1] /\ h1[2] = h2[2] /\ h1[3] = h2[3] /\ h1[4] = h2[4]

\* _is_transaction_event_cached that takes any cached node for the event.
is_transaction_event_cached_any_event(p, event_hash) ==
    Len(p.simulation.cached_trace) > Len(p.simulation.execution_trace)

is_transaction_event_cached(p, event_hash) ==
    /\ Len(p.simulation.cached_trace) > execution_trace_position(p) + 1
    /\ HashEq(event_hash, p.simulation.cached_trace[execution_trace_position(p) + 2].event_hash)

skip_execution_with_cache(p) ==
    [p EXCEPT !.simulation.execution_trace =
        Append(@, p.simulation.cached_trace[execution_trace_position(p) + 2])]

drop_cached_trace_suffix(p) ==
    [p EXCEPT !.simulation.cached_trace = PySliceTo(@, execution_trace_position(p) + 1)]

add_to_execution_trace(p, state, event_hash, event_output) ==
    [p EXCEPT !.simulation.execution_trace =
        Append(@, Node(None, event_hash, event_output, state))]

add_to_cache_trace(p, state, event_hash, event_output) ==
    LET previous_hash == IF p.simulation.cached_trace # <<>>
                         THEN custom_hash(p.simulation.cached_trace[Len(p.simulation.cached_trace)])
                         ELSE None
    IN [p EXCEPT !.simulation.cached_trace =
                     Append(@, Node(previous_hash, event_hash, event_output, state)),
                 !.simulation.has_unsaved_cache_changes = TRUE]

load_cache_file(p, cache_path) ==
    [p EXCEPT !.simulation.cached_trace =
        IF IsNone(p.files[cache_path]) THEN <<>> ELSE Val(p.files[cache_path])]

save_cache_file(p, cache_path) ==
    [p EXCEPT !.files[cache_path] = Some(p.simulation.cached_trace),
              !.simulation.has_unsaved_cache_changes = FALSE]

checkpoint(p) ==
    IF p.simulation.has_unsaved_cache_changes
    THEN save_cache_file(p, p.simulation.cache_path)
    ELSE p

\* _encode_function_output taking a world for a person.
encode_function_output_all_persons(p, output) ==
    IF output.t = "None" THEN [type |-> "None", name |-> NoneName, value |-> <<>>]
    ELSE IF output.t \in {"TinyPerson", "TinyWorld"}
    THEN [type |-> "TinyPersonRef",
          name |-> IF output.t = "TinyPerson" THEN p.agents[output.id].name
                   ELSE p.worlds[output.id].name,
          value |-> <<>>]
    ELSE [type |-> "JSON", name |-> NoneName, value |-> output.v]

\* _encode_function_output / _decode_function_output.
EncodedOutput(type, name, value) == [type |-> type, name |-> name, value |-> value]

encode_function_output(p, output) ==
    IF output.t = "None" THEN EncodedOutput("None", NoneName, <<>>)
    ELSE IF output.t = "TinyPerson"
    THEN EncodedOutput("TinyPersonRef", p.agents[output.id].name, <<>>)
    ELSE IF output.t = "TinyWorld"
    THEN EncodedOutput("TinyWorldRef", p.worlds[output.id].name, <<>>)
    ELSE EncodedOutput("JSON", NoneName, output.v)

RefOrNone(t, id) == IF id = NoneRef THEN RetNone ELSE [t |-> t, id |-> id, v |-> <<>>]

decode_function_output(p, encoded_output) ==
    IF encoded_output.type = "None" THEN RetNone
    ELSE IF encoded_output.type = "TinyPersonRef"
    THEN RefOrNone("TinyPerson", TinyPerson_get_agent_by_name(p, encoded_output.name))
    ELSE IF encoded_output.type = "TinyWorldRef"
    THEN RefOrNone("TinyWorld", TinyWorld_get_environment_by_name(p, encoded_output.name))
    ELSE RetJSON(encoded_output.value)

\* The wrapped function of a call, applied to its object and arguments.
Body(p0, call) ==
    LET p == [p0 EXCEPT !.bodies = @ + 1]
        self == call.self
        fn == call.fn
    IN IF call.kind = "TinyPerson"
       THEN CASE fn = "_observe" -> observe_body(p, self, call.val)
              [] fn = "listen" -> listen_body(p, self, call.val, call.other)
              [] fn = "define" -> define_body(p, self, call.val[1])
              [] fn = "define_relationships" ->
                     Return(define_relationships_body(p, self, call.val[1], call.val[2],
                                                      call.val[3]), RetNone)
              [] fn = "make_agent_accessible" ->
                     Return(make_agent_accessible_body(p, self, call.other,
                                                       DefaultRelationDescription), RetNone)
              [] fn = "make_agent_inaccessible" ->
                     Return(make_agent_inaccessible_body(p, self, call.other), RetNone)
              [] fn = "make_all_agents_inaccessible" ->
                     Return(make_all_agents_inaccessible_body(p, self), RetNone)
              [] fn = "pop_latest_actions" -> pop_latest_actions_body(p, self)
              [] fn = "_produce_message" -> produce_message_body(p, self)
              [] fn = "_update_cognitive_state" ->
                     update_cognitive_state_body(p, self,
                         [goals |-> call.val[1], attention |-> call.val[2],
                          emotions |-> call.val[3]])
              [] fn = "act" -> act_body(p, self, call.val[1])
              [] fn = "listen_and_act" ->
                     listen_and_act_body(p, self, Tail(call.val), Head(call.val))
              [] fn = "see_and_act" ->
                     see_and_act_body(p, self, Tail(call.val), Head(call.val))
              [] fn = "think_and_act" ->
                     think_and_act_body(p, self, Tail(call.val), Head(call.val))
       ELSE CASE fn = "broadcast" -> broadcast_body(p, self, call.val, call.other)
              [] fn = "_handle_actions" -> handle_actions_body(p, self, call.other, call.val)
              [] fn = "_handle_talk" ->
                     handle_talk_body(p, self, call.other, Tail(call.val), Head(call.val))
              [] fn = "_handle_reach_out" /\ call.kind = "TinyWorld" ->
                     handle_reach_out_body(p, self, call.other, Tail(call.val), Head(call.val))
              [] fn = "_handle_reach_out" /\ call.kind = "TinySocialNetwork" ->
                     sn_handle_reach_out_body(p, self, call.other, Tail(call.val), Head(call.val))
              [] fn = "_step" /\ call.kind = "TinyWorld" -> step_body(p, self, call.val[1])
              [] fn = "_step" /\ call.kind = "TinySocialNetwork" ->
                     IF call.val = <<>> THEN sn_step_body(p, self) ELSE Raise(p0, "TypeError")
              [] fn = "_update_agents_contexts" -> update_agents_contexts_body(p, self)
              [] fn = "run" -> run_body(p, self, call.val[1], call.val[2], call.val[3])
              [] fn = "add_relation" -> add_relation_body(p, self, call.other, call.val[1])

\* Transaction.__init__: a free object is captured by the current simulation.
transaction_init(p, call) ==
    IF ~HasCurrentSimulation(p) THEN p
    ELSE LET simulation_id == IF call.kind = "TinyPerson"
                              THEN p.agents[call.self].simulation_id
                              ELSE p.worlds[call.self].simulation_id
         IN IF simulation_id # NoneName
            THEN IF simulation_id # "default" THEN Raise(p, "ValueError") ELSE p
            ELSE IF call.kind = "TinyPerson" THEN simulation_add_agent(p, call.self)
            ELSE simulation_add_environment(p, call.self)

begin_transaction(p) == [p EXCEPT !.simulation._under_transaction = TRUE]
end_transaction(p) == [p EXCEPT !.simulation._under_transaction = FALSE]

\* The cache-hit branch of Transaction.execute.
execute_cached(p) ==
    Bind(skip_execution_with_cache(p), LAMBDA q1 :
        Bind(q1.simulation.cached_trace[execution_trace_position(q1) + 1], LAMBDA node :
            Then(decode_simulation_state(q1, node.state), LAMBDA q2 :
                [q2 EXCEPT !.ret = decode_function_output(q2, node.event_output)])))

\* The top-level miss branch: nothing restores the flag when the function raises.
execute_top_level(p, call, event_hash) ==
    Then(Body(drop_cached_trace_suffix(begin_transaction(p)), call), LAMBDA q2 :
        IF ~SimulationEncodable(q2) THEN Raise(q2, "AttributeError")
        ELSE Bind(encode_function_output(q2, q2.ret), LAMBDA encoded_output :
                 Bind(encode_simulation_state(q2), LAMBDA state :
                     end_transaction(
                         add_to_execution_trace(
                             add_to_cache_trace(q2, state, event_hash, encoded_output),
                             state, event_hash, encoded_output)))))

execute(p, call) ==
    Then(IF ~HasCurrentSimulation(p) \/ p.simulation.status = "stopped"
         THEN Body(p, call)
         ELSE LET event_hash == function_call_hash(p, call)
              IN IF is_transaction_event_cached(p, event_hash) THEN execute_cached(p)
                 ELSE IF ~p.simulation._under_transaction
                 THEN execute_top_level(p, call, event_hash)
                 ELSE Body(p, call),
         LAMBDA q : IF HasCurrentSimulation(q) /\ q.simulation.auto_checkpoint
                    THEN checkpoint(q) ELSE q)

Exec(p, call) ==
    IF Raised(p) THEN p
    ELSE Then(transaction_init(p, call), LAMBDA q : execute(q, call))

(***************************************************************************)
(* Construction of agents and worlds                                       *)
(***************************************************************************)
\* TinyPerson(name): __init__ then _post_init on the fresh object a.
TinyPerson_init(p, a, name) ==
    IF p.all_agents[name] # NoneRef THEN Raise(p, "ValueError")
    ELSE LET ag == [NoAgent EXCEPT !.alive = TRUE, !.name = name,
                                   !.episodic_memory = EpisodicMemory(DefaultPrefixLength, DefaultLookbackLength),
                                   !._configuration = InitialConfiguration(name)]
             q == reset_prompt([p EXCEPT !.agents[a] = ag, !.all_agents[name] = a], a)
         IN IF HasCurrentSimulation(q) THEN simulation_add_agent(q, a) ELSE q

RECURSIVE add_agents(_, _, _, _)
add_agents(p, w, agents, i) ==
    IF Raised(p) \/ i > Len(agents) THEN p
    ELSE add_agents(add_agent(p, w, agents[i]), w, agents, i + 1)

\* TinyWorld(name, agents, initial_datetime, broadcast_if_no_target) and
\* TinySocialNetwork(name, broadcast_if_no_target) on the fresh object w.
TinyWorld_init(p, w, name, kind, agents, initial_datetime, broadcast_if_no_target) ==
    LET wd == [NoWorld EXCEPT !.alive = TRUE, !.name = name, !.kind = kind,
                              !.current_datetime = initial_datetime,
                              !.broadcast_if_no_target = broadcast_if_no_target]
        q == [p EXCEPT !.worlds[w] = wd]
    IN IF p.all_environments[name] # NoneRef THEN Raise(q, "ValueError")
       ELSE add_agents([q EXCEPT !.all_environments[name] = w], w, agents, 1)

(***************************************************************************)
(* The control module's functions (control.py)                             *)
(***************************************************************************)
\* _simulation(): the Simulation under "default", created on first use.
simulation_get(p) ==
    IF p.simulation_created THEN p
    ELSE [p EXCEPT !.simulation = NewSimulation, !.simulation_created = TRUE]

\* Simulation.begin: neither the execution trace nor the captured objects
\* nor the transaction flag are touched.
simulation_begin(p, cache_path, auto_checkpoint) ==
    IF p.simulation.status # "stopped" THEN Raise(p, "ValueError")
    ELSE LET q == [p EXCEPT !.simulation.status = "started",
                            !.simulation.cache_path =
                                IF IsNone(cache_path) THEN @ ELSE Val(cache_path),
                            !.simulation.auto_checkpoint = auto_checkpoint,
                            !.all_agents = [n \in AgentNames |-> NoneRef],
                            !.all_environments = [n \in WorldNames |-> NoneRef]]
         IN load_cache_file(q, q.simulation.cache_path)

control_begin(p, cache_path, auto_checkpoint) ==
    IF p.current_simulation_id # NoneName THEN Raise(p, "ValueError")
    ELSE LET q == simulation_begin(simulation_get(p), cache_path, auto_checkpoint)
         IN IF Raised(q) THEN q ELSE [q EXCEPT !.current_simulation_id = "default"]

\* Variant: end() stops the simulation whatever its status.
simulation_end_unchecked(p) == checkpoint([p EXCEPT !.simulation.status = "stopped"])

simulation_end(p) ==
    IF p.simulation.status = "started"
    THEN checkpoint([p EXCEPT !.simulation.status = "stopped"])
    ELSE Raise(p, "ValueError")

control_end(p) ==
    LET q == simulation_end(simulation_get(p))
    IN IF Raised(q) THEN q ELSE [q EXCEPT !.current_simulation_id = NoneName]

control_checkpoint(p) == checkpoint(simulation_get(p))

control_reset(p) ==
    [p EXCEPT !.simulation = NewSimulation, !.simulation_created = FALSE,
              !.current_simulation_id = NoneName]

add_mental_faculty(p, a, faculty) ==
    IF ~Contains(p.agents[a]._mental_faculties, faculty)
    THEN [p EXCEPT !.agents[a]._mental_faculties = Append(@, faculty)]
    ELSE Raise(p, "Exception")

(***************************************************************************)
(* Programs: the statements a script runs one after the other, catching    *)
(* what they raise.                                                        *)
(***************************************************************************)
FirstFreeAgent(p) ==
    IF \E i \in AgentIds : ~p.agents[i].alive
    THEN CHOOSE i \in AgentIds : ~p.agents[i].alive /\ \A j \in 1..(i - 1) : p.agents[j].alive
    ELSE NoneRef

Begin(cache_path, auto_checkpoint) ==
    [op |-> "begin", cache_path |-> cache_path, auto_checkpoint |-> auto_checkpoint]
End == [op |-> "end"]
Checkpoint == [op |-> "checkpoint"]
Reset == [op |-> "reset"]
Restart == [op |-> "restart"]
Create(name) == [op |-> "TinyPerson", name |-> name]
AddFaculty(a, faculty) == [op |-> "add_mental_faculty", agent |-> a, faculty |-> faculty]
Invoke(call) == [op |-> "call", call |-> call]

Apply(p0, st) ==
    LET p == [p0 EXCEPT !.llm = NoLLM, !.deliveries = <<>>, !.dispatched = <<>>,
                        !.exc = NoException, !.ret = RetNone]
    IN CASE st.op = "begin" -> control_begin(p, st.cache_path, st.auto_checkpoint)
         [] st.op = "end" -> control_end(p)
         [] st.op = "checkpoint" -> control_checkpoint(p)
         [] st.op = "reset" -> control_reset(p)
         [] st.op = "restart" -> Process(p.files)
         [] st.op = "TinyPerson" -> TinyPerson_init(p, FirstFreeAgent(p), st.name)
         [] st.op = "add_mental_faculty" -> add_mental_faculty(p, st.agent, st.faculty)
         [] st.op = "call" -> Exec(p, st.call)

RECURSIVE Run(_, _, _)
Run(p, program, i) ==
    IF i > Len(program) THEN p ELSE Run(Apply(p, program[i]), program, i + 1)

(***************************************************************************)
(* The memory under test: events e1, e2, ... are stored in turn and the    *)
(* views are taken with every argument combination.                        *)
(***************************************************************************)
\* The i-th event stored: a user event told apart by its timestamp.
TestEvent(i) == [role |-> "user", content |-> <<"e">>, simulation_timestamp |-> i]

OptN == {None} \cup {Some(n) : n \in 0..MaxN}

NoOp == [op |-> "none"]
NoRun == [phase |-> 0, program |-> <<>>, pc |-> 0]

MemInit ==
    /\ \E P \in 0..MaxN, L \in 0..MaxN : mem = EpisodicMemory(P, L)
    /\ retrieved = <<>>
    /\ last = NoOp
    /\ proc = FreshProcess
    /\ ops = 0
    /\ held = None
    /\ run = NoRun

MemStore ==
    /\ count(mem) < MaxMem
    /\ mem' = store(mem, TestEvent(count(mem) + 1))
    /\ last' = [op |-> "store"]
    /\ UNCHANGED <<retrieved, proc, ops, held, run>>

MemRetrieve ==
    \E first_n \in OptN, last_n \in OptN, include_omission_info \in BOOLEAN :
        /\ retrieved' = retrieve(mem, first_n, last_n, include_omission_info)
        /\ last' = [op |-> "retrieve", first_n |-> first_n, last_n |-> last_n,
                    include_omission_info |-> include_omission_info]
        /\ UNCHANGED <<mem, proc, ops, held, run>>

MemRetrieveRecent ==
    \E include_omission_info \in BOOLEAN :
        /\ retrieved' = retrieve_recent(mem, include_omission_info)
        /\ last' = [op |-> "retrieve_recent",
                    include_omission_info |-> include_omission_info]
        /\ UNCHANGED <<mem, proc, ops, held, run>>

MemNext == MemStore \/ MemRetrieve \/ MemRetrieveRecent

SpecMem == MemInit /\ [][MemNext]_vars

(***************************************************************************)
(* Worlds outside any simulation: three agents, one world, and the calls a *)
(* program makes on them. Transactional wrappers then just run the method. *)
(***************************************************************************)
MaxOps == 2
MaxSteps == 2

Response(type, content, target) ==
    [wf |-> "ok", type |-> type, content |-> content, target |-> target,
     cognitive_state |-> [goals |-> "g", attention |-> "a", emotions |-> "e"]]

MalformedResponse == [Response("TALK", <<"hi">>, "B") EXCEPT !.wf = "no_action"]

\* What the language model may answer: a script, then one answer for ever.
Oracles ==
    { [pending |-> <<>>, forever |-> DoneResponse],
      [pending |-> <<Response("REACH_OUT", <<"hi">>, "B")>>, forever |-> DoneResponse],
      [pending |-> <<Response("REACH_OUT", <<"hi">>, "C"), DoneResponse,
                     Response("REACH_OUT", <<"hi">>, "A")>>, forever |-> DoneResponse],
      [pending |-> <<Response("REACH_OUT", <<"hi">>, UnknownName)>>, forever |-> DoneResponse],
      [pending |-> <<Response("TALK", <<"x">>, "B"), DoneResponse,
                     Response("TALK", <<"y">>, UnknownName)>>, forever |-> DoneResponse],
      [pending |-> <<MalformedResponse>>, forever |-> DoneResponse],
      [pending |-> <<>>, forever |-> Response("TALK", <<"x">>, "A")] }

\* The actions a caller hands to _handle_actions.
Actions ==
    { Action(Response("REACH_OUT", <<"hi">>, t)) : t \in {"A", "B", "C", UnknownName, NoneName} }
    \cup { Action(Response("TALK", <<"x">>, t)) : t \in {"B", "C", UnknownName, NoneName} }
    \cup { Action(DoneResponse), Action(Response("THINK", <<"t">>, NoneName)) }

TheWorld == 1

\* Three agents are constructed, then the world with some of them.
ThreeAgents ==
    TinyPerson_init(TinyPerson_init(TinyPerson_init(FreshProcess, 1, "A"), 2, "B"), 3, "C")

RECURSIVE add_relations(_, _, _, _)
add_relations(p, w, relations, i) ==
    IF Raised(p) \/ i > Len(relations) THEN p
    ELSE add_relations(
             Exec(p, Call("add_relation", "TinySocialNetwork", w, relations[i][1],
                          <<relations[i][2]>>)),
             w, relations, i + 1)

WorldSetups ==
    { [kind |-> "TinyWorld", agents |-> <<1, 2, 3>>, relations |-> <<>>,
       broadcast_if_no_target |-> TRUE],
      [kind |-> "TinyWorld", agents |-> <<2, 1>>, relations |-> <<>>,
       broadcast_if_no_target |-> TRUE],
      [kind |-> "TinyWorld", agents |-> <<1, 2, 3>>, relations |-> <<>>,
       broadcast_if_no_target |-> FALSE],
      [kind |-> "TinySocialNetwork", agents |-> <<1, 2, 3>>, relations |-> <<<<1, 2>>>>,
       broadcast_if_no_target |-> TRUE],
      [kind |-> "TinySocialNetwork", agents |-> <<1, 2>>, relations |-> <<<<3, 1>>>>,
       broadcast_if_no_target |-> TRUE] }

SetUpWorld(setup) ==
    LET q == IF setup.kind = "TinyWorld"
             THEN TinyWorld_init(ThreeAgents, TheWorld, "W", "TinyWorld", setup.agents, 0,
                                 setup.broadcast_if_no_target)
             ELSE add_agents(TinyWorld_init(ThreeAgents, TheWorld, "W", "TinySocialNetwork",
                                            <<>>, 0, setup.broadcast_if_no_target),
                             TheWorld, setup.agents, 1)
    IN add_relations(q, TheWorld, setup.relations, 1)

\* What a caller sees of an operation: the exception, if any, reaches it and
\* the process goes on.
StartOp(p, oracle) ==
    [p EXCEPT !.llm = oracle, !.deliveries = <<>>, !.dispatched = <<>>,
              !.exc = NoException, !.ret = RetNone]

Done(op, args, q) ==
    /\ proc' = q
    /\ last' = [op |-> op, args |-> args, raised |-> q.exc, pre |-> proc]
    /\ ops' = ops + 1
    /\ UNCHANGED <<mem, retrieved, held, run>>

WorldInit ==
    /\ mem = EpisodicMemory(0, 0)
    /\ retrieved = <<>>
    /\ last = NoOp
    /\ \E setup \in WorldSetups : proc = SetUpWorld(setup)
    /\ ops = 0
    /\ held = None
    /\ run = NoRun

WBroadcast ==
    /\ ops < MaxOps
    /\ \E speech \in {<<"x">>}, source \in {NoneRef} \cup Alive(proc) :
         Done("broadcast", [speech |-> speech, source |-> source],
              broadcast(StartOp(proc, NoLLM), TheWorld, speech, source))

WHandleActions ==
    /\ ops < MaxOps
    /\ \E source \in Alive(proc), action \in Actions :
         Done("_handle_actions", [source |-> source, action |-> action],
              handle_actions(StartOp(proc, NoLLM), TheWorld, source, <<action>>))

WStep ==
    /\ ops < MaxOps
    /\ \E oracle \in Oracles, timedelta_per_step \in {None, Some(1)} :
         Done("_step", [timedelta_per_step |-> timedelta_per_step],
              step(StartOp(proc, oracle), TheWorld, timedelta_per_step))

WRun ==
    /\ ops < MaxOps
    /\ \E oracle \in Oracles, steps \in 1..MaxSteps, timedelta_per_step \in {None, Some(1)} :
         Done("run", [steps |-> steps, timedelta_per_step |-> timedelta_per_step],
              run_steps(StartOp(proc, oracle), TheWorld, steps, timedelta_per_step, TRUE))

WAct ==
    /\ ops < MaxOps
    /\ \E a \in Alive(proc), oracle \in Oracles :
         Done("act", [agent |-> a], act(StartOp(proc, oracle), a, FALSE))

WMakeAgentAccessible ==
    /\ ops < MaxOps
    /\ \E a \in Alive(proc), b \in Alive(proc) :
         Done("make_agent_accessible", [agent |-> a, other |-> b],
              [make_agent_accessible(StartOp(proc, NoLLM), a, b)
                  EXCEPT !.direct_accessibility = TRUE])

WMakeAgentInaccessible ==
    /\ ops < MaxOps
    /\ \E a \in Alive(proc), b \in Alive(proc) :
         Done("make_agent_inaccessible", [agent |-> a, other |-> b],
              [Exec(StartOp(proc, NoLLM),
                    Call("make_agent_inaccessible", "TinyPerson", a, b, <<>>))
                  EXCEPT !.direct_accessibility = TRUE])

WorldNext ==
    \/ WBroadcast
    \/ WHandleActions
    \/ WStep
    \/ WRun
    \/ WAct
    \/ WMakeAgentAccessible
    \/ WMakeAgentInaccessible

SpecWorld == WorldInit /\ [][WorldNext]_vars

(***************************************************************************)
(* One agent acting. act and listen_and_act are called on agent A under    *)
(* scripted language models that repeat themselves, alternate, answer      *)
(* without a required key, or give no answer at all.                       *)
(***************************************************************************)
MaxActs == 2

TheActor == 1

NoResponse == [DoneResponse EXCEPT !.wf = "none"]

Repeated(r, n) == [i \in 1..n |-> r]

\* n TALK actions no two neighbours of which are equal.
Alternating(n) ==
    [i \in 1..n |-> Response("TALK", <<IF i % 2 = 0 THEN "x" ELSE "y">>, "B")]

ActOracles ==
    { [pending |-> <<>>, forever |-> DoneResponse],
      [pending |-> <<>>, forever |-> Response("TALK", <<"x">>, "B")],
      [pending |-> <<>>, forever |-> MalformedResponse],
      [pending |-> <<Response("TALK", <<"x">>, "B")>>, forever |-> MalformedResponse],
      [pending |-> <<NoResponse>>, forever |-> DoneResponse],
      [pending |-> <<Response("TALK", <<"x">>, "B"), MalformedResponse, NoResponse>>,
       forever |-> DoneResponse],
      [pending |-> <<MalformedResponse, MalformedResponse, Response("TALK", <<"x">>, "B"),
                     MalformedResponse, MalformedResponse, MalformedResponse>>,
       forever |-> DoneResponse] }
    \cup { [pending |-> Repeated(Response("TALK", <<"x">>, "B"), n), forever |-> DoneResponse] :
             n \in 3..5 }
    \cup { [pending |-> Repeated(MalformedResponse, n), forever |-> DoneResponse] :
             n \in ActRetries - 1 .. ActRetries }
    \cup { [pending |-> Alternating(n), forever |-> DoneResponse] :
             n \in MAX_ACTIONS_BEFORE_DONE - 1 .. MAX_ACTIONS_BEFORE_DONE + 1 }
    \cup { [pending |-> Alternating(MAX_ACTIONS_BEFORE_DONE + 1),
            forever |-> Response("TALK", <<"z">>, "B")] }

ActInit ==
    /\ mem = EpisodicMemory(0, 0)
    /\ retrieved = <<>>
    /\ last = NoOp
    /\ proc \in { TinyPerson_init(FreshProcess, TheActor, "A"),
                  TinyWorld_init(ThreeAgents, TheWorld, "W", "TinyWorld", <<1, 2, 3>>, 0, TRUE) }
    /\ ops = 0
    /\ held = None
    /\ run = NoRun

AAct ==
    /\ ops < MaxActs
    /\ \E oracle \in ActOracles, return_actions \in BOOLEAN :
         Done("act", [oracle |-> oracle, return_actions |-> return_actions],
              act(StartOp(proc, oracle), TheActor, return_actions))

AListenAndAct ==
    /\ ops < MaxActs
    /\ \E oracle \in ActOracles :
         Done("listen_and_act", [oracle |-> oracle, return_actions |-> TRUE],
              listen_and_act(StartOp(proc, oracle), TheActor, <<"hello">>, TRUE))

ASeeAndAct ==
    /\ ops < MaxActs
    /\ \E oracle \in ActOracles :
         Done("see_and_act", [oracle |-> oracle, return_actions |-> TRUE],
              see_and_act(StartOp(proc, oracle), TheActor, <<"hello">>, TRUE))

AThinkAndAct ==
    /\ ops < MaxActs
    /\ \E oracle \in ActOracles :
         Done("think_and_act", [oracle |-> oracle, return_actions |-> TRUE],
              think_and_act(StartOp(proc, oracle), TheActor, <<"hello">>, TRUE))

\* The perception calls a program makes on the agent, with their defaults.
Perceptions == {"listen", "see", "socialize", "think", "internalize_goal"}

Perceive(p, a, method, content) ==
    CASE method = "listen" -> listen(p, a, content, NoneRef)
      [] method = "see" -> see(p, a, content, NoneRef)
      [] method = "socialize" -> socialize(p, a, content, name_or_empty_agent(p, NoneRef))
      [] method = "think" -> think(p, a, content)
      [] method = "internalize_goal" -> internalize_goal(p, a, content)

APerceive ==
    /\ ops < MaxActs
    /\ \E method \in Perceptions, content \in {<<"hello">>, <<"bye">>} :
         Done(method, [content |-> content, oracle |-> NoLLM],
              Perceive(StartOp(proc, NoLLM), TheActor, method, content))

ActNext ==
    \/ AAct
    \/ AListenAndAct
    \/ ASeeAndAct
    \/ AThinkAndAct
    \/ APerceive

SpecAct == ActInit /\ [][ActNext]_vars

(***************************************************************************)
(* Membership: agents are added to and removed from two worlds, a          *)
(* TinyWorld and a TinySocialNetwork, related, and the worlds' states are  *)
(* encoded and decoded.                                                    *)
(***************************************************************************)
MaxMemberOps == 3

OtherWorld == TheWorld + 1

\* TinyPerson.clear_agents(): the global registry forgets every agent.
clear_agents(p) == [p EXCEPT !.all_agents = [n \in AgentNames |-> NoneRef]]

\* Two agents named A: the second was constructed after clear_agents().
Namesakes ==
    TinyPerson_init(
        clear_agents(TinyPerson_init(TinyPerson_init(FreshProcess, 1, "A"), 2, "B")), 3, "A")

TwoWorlds(p) ==
    TinyWorld_init(TinyWorld_init(p, TheWorld, "W", "TinyWorld", <<>>, 0, TRUE),
                   OtherWorld, "V", "TinySocialNetwork", <<>>, 0, TRUE)

MembersInit ==
    /\ mem = EpisodicMemory(0, 0)
    /\ retrieved = <<>>
    /\ last = NoOp
    /\ proc \in {TwoWorlds(ThreeAgents), TwoWorlds(Namesakes)}
    /\ ops = 0
    /\ held = None
    /\ run = NoRun

MAddAgent ==
    /\ ops < MaxMemberOps
    /\ \E w \in WorldIds, a \in Alive(proc) :
         Done("add_agent", [world |-> w, agent |-> a],
              add_agent(StartOp(proc, NoLLM), w, a))

MRemoveAgent ==
    /\ ops < MaxMemberOps
    /\ \E w \in WorldIds, a \in Alive(proc) :
         Done("remove_agent", [world |-> w, agent |-> a],
              remove_agent(StartOp(proc, NoLLM), w, a))

MRemoveAllAgents ==
    /\ ops < MaxMemberOps
    /\ \E w \in WorldIds :
         Done("remove_all_agents", [world |-> w],
              remove_all_agents(StartOp(proc, NoLLM), w))

MAddRelation ==
    /\ ops < MaxMemberOps
    /\ \E a \in Alive(proc), b \in Alive(proc) :
         Done("add_relation", [world |-> OtherWorld, agent_1 |-> a, agent_2 |-> b],
              Exec(StartOp(proc, NoLLM),
                   Call("add_relation", "TinySocialNetwork", OtherWorld, a, <<b>>)))

\* state = world.encode_complete_state(), kept by the program.
MEncodeWorld ==
    /\ ops < MaxMemberOps
    /\ \E w \in WorldIds :
         /\ WorldEncodable(proc, w)
         /\ held' = Some([world |-> w, state |-> world_encode_complete_state(proc, w)])
         /\ last' = [op |-> "encode_complete_state", args |-> [world |-> w],
                     raised |-> NoException, pre |-> proc]
    /\ ops' = ops + 1
    /\ UNCHANGED <<mem, retrieved, proc, run>>

\* world.decode_complete_state(state) with the state kept earlier.
MDecodeWorld ==
    /\ ops < MaxMemberOps
    /\ ~IsNone(held)
    /\ Done("decode_complete_state", [world |-> Val(held).world],
            world_decode_complete_state(StartOp(proc, NoLLM), Val(held).world,
                                        Val(held).state))

MembersNext ==
    \/ MAddAgent
    \/ MRemoveAgent
    \/ MRemoveAllAgents
    \/ MAddRelation
    \/ MEncodeWorld
    \/ MDecodeWorld

SpecMembers == MembersInit /\ [][MembersNext]_vars

(***************************************************************************)
(* Outputs of transactional methods: a value is encoded when the call is   *)
(* recorded and decoded when a later call is served from the cache.        *)
(***************************************************************************)
MaxOutputOps == 3
MaxOutputLen == 2

\* A scalar inside a list or dict.
Scalar(s) == [t |-> s, id |-> NoneRef, v |-> <<>>]

\* What a returned list or dict may hold.
OutputElements(p) ==
    {Scalar("1"), Scalar("'x'")}
    \cup {RetAgent(a) : a \in Alive(p)}
    \cup {RetWorld(w) : w \in {x \in WorldIds : p.worlds[x].alive}}

\* What a transactional method may return: None, an agent, a world, or a
\* JSON value with up to MaxOutputLen members.
Outputs(p) ==
    {RetNone}
    \cup {RetAgent(a) : a \in Alive(p)}
    \cup {RetWorld(w) : w \in {x \in WorldIds : p.worlds[x].alive}}
    \cup {RetJSON(v) : v \in UNION {[1..n -> OutputElements(p)] : n \in 0..MaxOutputLen}}

OutputInit ==
    /\ mem = EpisodicMemory(0, 0)
    /\ retrieved = <<>>
    /\ last = NoOp
    /\ proc \in {ThreeAgents, TwoWorlds(ThreeAgents), TwoWorlds(Namesakes)}
    /\ ops = 0
    /\ held = None
    /\ run = NoRun

\* encoded_output = self._encode_function_output(output)
OEncode ==
    /\ ops < MaxOutputOps
    /\ \E output \in Outputs(proc) :
         /\ held' = Some([output |-> output,
                          encoded |-> encode_function_output(proc, output)])
         /\ last' = [op |-> "_encode_function_output", args |-> [output |-> output],
                     raised |-> NoException, pre |-> proc]
    /\ ops' = ops + 1
    /\ UNCHANGED <<mem, retrieved, proc, run>>

\* output = self._decode_function_output(encoded_output)
ODecode ==
    /\ ops < MaxOutputOps
    /\ ~IsNone(held)
    /\ proc' = [proc EXCEPT !.ret = decode_function_output(proc, Val(held).encoded)]
    /\ last' = [op |-> "_decode_function_output", args |-> Val(held),
                raised |-> NoException, pre |-> proc]
    /\ ops' = ops + 1
    /\ UNCHANGED <<mem, retrieved, held, run>>

\* TinyPerson.clear_agents(), as Simulation.begin does between two runs.
OClearAgents ==
    /\ ops < MaxOutputOps
    /\ proc' = clear_agents(proc)
    /\ last' = [op |-> "clear_agents", args |-> <<>>, raised |-> NoException, pre |-> proc]
    /\ ops' = ops + 1
    /\ UNCHANGED <<mem, retrieved, held, run>>

OutputNext == OEncode \/ ODecode \/ OClearAgents

SpecOutput == OutputInit /\ [][OutputNext]_vars

(***************************************************************************)
(* The OpenAI client (openai_utils.py): send_message with its retries,     *)
(* its waiting time and its cache of API calls.                            *)
(***************************************************************************)
MaxSends == 3
MaxAttempts == 2

\* str((model, chat_api_params)): the model, the parameters and the messages.
CacheKeys == {"k1", "k2"}

\* What the API may answer to one request.
Responses == {"r1", "r2"}

InvalidRequests == {"InvalidRequestError", "BadRequestError"}
BackedOff == {"RateLimitError", "NonTerminalError"}

\* What one _raw_model_call may do: answer, or raise. APIConnectionError stands
\* for the exceptions that only the last handler, except Exception, catches.
CallOutcomes == Responses \cup InvalidRequests \cup BackedOff \cup {"APIConnectionError"}

Absent == "<absent>"

\* _raw_model_response_extractor: response.choices[0].message.to_dict()
raw_model_response_extractor(response) == [role |-> "assistant", content |-> response]

\* aux_exponential_backoff: the waiting time after it has slept.
aux_exponential_backoff(waiting_time, exponential_backoff_factor) ==
    (IF waiting_time <= 0 THEN 2 ELSE waiting_time) * exponential_backoff_factor

\* _save_cache / _load_cache: the cache is pickled to and from cache_file_name.
save_cache(c) == [c EXCEPT !.file = c.api_cache]
load_cache(c) == c.file

\* set_api_cache(cache_api_calls)
set_api_cache(c, cache_api_calls) ==
    IF cache_api_calls
    THEN [c EXCEPT !.cache_api_calls = TRUE, !.api_cache = load_cache(c)]
    ELSE [c EXCEPT !.cache_api_calls = FALSE]

\* OpenAIClient(cache_api_calls) with the cache file it finds.
OpenAIClient(cache_api_calls, file) ==
    set_api_cache([cache_api_calls |-> FALSE, api_cache |-> [k \in CacheKeys |-> Absent],
                   file |-> file], cache_api_calls)

\* One attempt of the loop, as it is remembered for the claims.
Attempt(outcome, before, after) == [outcome |-> outcome, before |-> before, after |-> after]

\* The while loop of send_message. s holds the client, i, waiting_time, the
\* number of calls made to the API and the attempts so far; rq is the request:
\* its cache key, max_attempts, exponential_backoff_factor and what the
\* successive calls to the API do.
RECURSIVE send_message_loop(_, _)
send_message_loop(s, rq) ==
    IF s.i >= rq.max_attempts THEN [s EXCEPT !.ret = None]
    ELSE IF s.client.cache_api_calls /\ s.client.api_cache[rq.key] # Absent
    THEN [s EXCEPT !.i = @ + 1,
                   !.attempts = Append(@, Attempt("cached", s.waiting_time, s.waiting_time)),
                   !.ret = Some(raw_model_response_extractor(s.client.api_cache[rq.key]))]
    ELSE LET outcome == rq.script[s.network + 1]
             t == [s EXCEPT !.i = @ + 1, !.network = @ + 1]
         IN IF outcome \in Responses
            THEN [t EXCEPT !.client = IF s.client.cache_api_calls
                                      THEN save_cache([s.client EXCEPT
                                                          !.api_cache[rq.key] = outcome])
                                      ELSE s.client,
                           !.attempts = Append(@, Attempt(outcome, s.waiting_time,
                                                          s.waiting_time)),
                           !.ret = Some(raw_model_response_extractor(outcome))]
            ELSE IF outcome \in InvalidRequests
            THEN [t EXCEPT !.attempts = Append(@, Attempt(outcome, s.waiting_time,
                                                          s.waiting_time)),
                           !.ret = None]
            ELSE IF outcome \in BackedOff
            THEN LET w == aux_exponential_backoff(s.waiting_time,
                                                  rq.exponential_backoff_factor)
                 IN send_message_loop(
                        [t EXCEPT !.waiting_time = w,
                                  !.attempts = Append(@, Attempt(outcome, s.waiting_time, w))],
                        rq)
            ELSE send_message_loop(
                     [t EXCEPT !.attempts = Append(@, Attempt(outcome, s.waiting_time,
                                                              s.waiting_time))],
                     rq)

\* send_message that never looks into the cache.
OpenAIClient_send_message_uncached(c, rq) ==
    [send_message_loop([client |-> [c EXCEPT !.cache_api_calls = FALSE], i |-> 0,
                        waiting_time |-> rq.waiting_time, network |-> 0,
                        attempts |-> <<>>, ret |-> None], rq)
        EXCEPT !.client = c]

\* OpenAIClient.send_message
OpenAIClient_send_message(c, rq) ==
    send_message_loop([client |-> c, i |-> 0, waiting_time |-> rq.waiting_time,
                       network |-> 0, attempts |-> <<>>, ret |-> None], rq)

\* The requests a program may send.
Requests ==
    UNION {[key : CacheKeys, max_attempts : {n}, waiting_time : {0, 1},
            exponential_backoff_factor : {5}, script : [1..n -> CallOutcomes]]
           : n \in 0..MaxAttempts}

\* What the calls made with the cache on have fetched and answered so far.
NoHistory == [fetched |-> [k \in CacheKeys |-> 0], answers |-> [k \in CacheKeys |-> {}]]

Fetches(attempts) == Cardinality({j \in 1..Len(attempts) : attempts[j].outcome \in Responses})

ClientInit ==
    /\ mem = EpisodicMemory(0, 0)
    /\ retrieved = <<>>
    /\ last = NoOp
    /\ \E cache_api_calls \in BOOLEAN,
          file \in {[k \in CacheKeys |-> Absent],
                    [k \in CacheKeys |-> IF k = "k1" THEN "r1" ELSE Absent]} :
         proc = OpenAIClient(cache_api_calls, file)
    /\ ops = 0
    /\ held = NoHistory
    /\ run = NoRun

CSendMessage ==
    /\ ops < MaxSends
    /\ \E rq \in Requests :
         LET s == OpenAIClient_send_message(proc, rq)
         IN /\ proc' = s.client
            /\ last' = [op |-> "send_message", args |-> rq, raised |-> NoException,
                        pre |-> proc, i |-> s.i, network |-> s.network,
                        attempts |-> s.attempts, ret |-> s.ret]
            /\ held' = IF ~proc.cache_api_calls THEN held
                       ELSE [fetched |-> [held.fetched EXCEPT ![rq.key] =
                                             @ + Fetches(s.attempts)],
                             answers |-> [held.answers EXCEPT ![rq.key] =
                                             IF IsNone(s.ret) THEN @
                                             ELSE @ \cup {Val(s.ret)}]]
    /\ ops' = ops + 1
    /\ UNCHANGED <<mem, retrieved, run>>

CSetApiCache ==
    /\ ops < MaxSends
    /\ \E cache_api_calls \in BOOLEAN :
         /\ proc' = set_api_cache(proc, cache_api_calls)
         /\ last' = [op |-> "set_api_cache", args |-> cache_api_calls,
                     raised |-> NoException, pre |-> proc]
    /\ ops' = ops + 1
    /\ UNCHANGED <<mem, retrieved, held, run>>

ClientNext == CSendMessage \/ CSetApiCache

SpecClient == ClientInit /\ [][ClientNext]_vars

(***************************************************************************)
(* Tools (tools.py) and the ToolUse faculty that offers actions to them.   *)
(***************************************************************************)
MaxToolOps == 2
MaxTools == 2

\* A tool: a word processor or a calendar, owned by an agent or by nobody.
Tools == [kind : {"wordprocessor", "calendar"}, owner : {NoneName, "A", "B"}]

\* The actions an agent may hand to its faculties; the content is absent,
\* a JSON text, or a text that is not JSON.
ToolActions ==
    [type : {"WRITE_DOCUMENT", "CREATE_EVENT", "TALK"}, content : {NoneName, "json", "text"}]

\* What a method gives back: a value, or the exception it raised; written
\* counts the documents written on the way.
Gave(ret, written) == [ret |-> ret, raised |-> NoException, written |-> written]
Threw(exception) == [ret |-> "None", raised |-> exception, written |-> 0]

\* TinyWordProcessor._process_action
TinyWordProcessor_process_action(action) ==
    IF action.type = "WRITE_DOCUMENT" /\ action.content # NoneName
    THEN IF action.content = "json" THEN Gave("True", 1) ELSE Gave("False", 0)
    ELSE Gave("False", 0)

\* TinyCalendar._process_action: json.loads, then add_event(event_content),
\* which lacks its second argument.
TinyCalendar_process_action(action) ==
    IF action.type = "CREATE_EVENT" /\ action.content # NoneName
    THEN IF action.content = "json" THEN Threw("TypeError") ELSE Threw("JSONDecodeError")
    ELSE Gave("False", 0)

\* tool._process_action(agent, action)
tool_process_action(tool, action) ==
    IF tool.kind = "wordprocessor" THEN TinyWordProcessor_process_action(action)
    ELSE TinyCalendar_process_action(action)

\* TinyTool.process_action: the result of _process_action is not returned.
TinyTool_process_action(tool, agent, action) ==
    IF tool.owner # NoneName /\ agent # tool.owner THEN Threw("ValueError")
    ELSE LET r == tool_process_action(tool, action)
         IN IF r.raised # NoException THEN r ELSE Gave("None", r.written)

\* ToolUse.process_action from tool i on; offered lists the tools reached.
RECURSIVE ToolUse_process_action_from(_, _, _, _, _)
ToolUse_process_action_from(tools, agent, action, i, sofar) ==
    IF i > Len(tools) THEN [sofar EXCEPT !.ret = "False"]
    ELSE LET r == TinyTool_process_action(tools[i], agent, action)
             t == [sofar EXCEPT !.offered = Append(@, i), !.written = @ + r.written]
         IN IF r.raised # NoException THEN [t EXCEPT !.raised = r.raised]
            ELSE IF r.ret = "True" THEN [t EXCEPT !.ret = "True"]
            ELSE ToolUse_process_action_from(tools, agent, action, i + 1, t)

\* ToolUse.process_action
ToolUse_process_action(tools, agent, action) ==
    ToolUse_process_action_from(tools, agent, action, 1,
        [ret |-> "None", raised |-> NoException, written |-> 0, offered |-> <<>>])

\* ToolUse(tools) with up to MaxTools tools.
ToolsInit ==
    /\ mem = EpisodicMemory(0, 0)
    /\ retrieved = <<>>
    /\ last = NoOp
    /\ proc \in {[tools |-> tools, written |-> 0] :
                     tools \in UNION {[1..n -> Tools] : n \in 0..MaxTools}}
    /\ ops = 0
    /\ held = None
    /\ run = NoRun

TProcessAction ==
    /\ ops < MaxToolOps
    /\ \E agent \in {"A", "B"}, action \in ToolActions :
         LET r == ToolUse_process_action(proc.tools, agent, action)
         IN /\ proc' = [proc EXCEPT !.written = @ + r.written]
            /\ last' = [op |-> "process_action",
                        args |-> [agent |-> agent, action |-> action],
                        raised |-> r.raised, pre |-> proc, ret |-> r.ret,
                        offered |-> r.offered]
    /\ ops' = ops + 1
    /\ UNCHANGED <<mem, retrieved, held, run>>

ToolsNext == TProcessAction

SpecTools == ToolsInit /\ [][ToolsNext]_vars

(***************************************************************************)
(* Semantic memory (agent.py): the paths and URLs it ingests and the       *)
(* documents it loads from them.                                           *)
(***************************************************************************)
MaxSemanticOps == 3
MaxUrls == 2

DocumentsPaths == {"p1", "p2"}
WebUrls == {"u1", "u2"}

\* SimpleDirectoryReader(path).load_data(): the documents found under a path.
DirectoryDocuments(documents_path) == <<[file_name |-> documents_path]>>

\* SimpleWebPageReader.load_data(urls): one document per URL given, in order.
WebDocuments(web_urls) == [i \in 1..Len(web_urls) |-> [id_ |-> web_urls[i]]]

\* Names are doc.metadata["file_name"] for files and doc.id_ for pages.
FileName(document) == document.file_name
PageId(document) == document.id_

\* [x for x in xs if x not in ys]
PyFilterNotIn(xs, ys) == SelectSeq(xs, LAMBDA x : \A j \in 1..Len(ys) : ys[j] # x)

\* _add_documents (the vector index follows self.documents)
add_documents(sm, new_documents, names) ==
    IF Len(new_documents) > 0
    THEN [sm EXCEPT !.documents = @ \o new_documents,
                    !.filename_to_document = @ \cup names]
    ELSE sm

add_documents_path(sm, documents_path) ==
    IF \A j \in 1..Len(sm.documents_paths) : sm.documents_paths[j] # documents_path
    THEN LET new_documents == DirectoryDocuments(documents_path)
         IN add_documents([sm EXCEPT !.documents_paths = Append(@, documents_path)],
                          new_documents,
                          {FileName(new_documents[i]) : i \in 1..Len(new_documents)})
    ELSE sm

add_web_urls(sm, web_urls) ==
    LET filtered_web_urls == PyFilterNotIn(web_urls, sm.documents_web_urls)
        new_documents == WebDocuments(filtered_web_urls)
    IN IF Len(filtered_web_urls) > 0
       THEN add_documents([sm EXCEPT !.documents_web_urls = @ \o filtered_web_urls],
                          new_documents,
                          {PageId(new_documents[i]) : i \in 1..Len(new_documents)})
       ELSE sm

\* SemanticMemory(): no paths, no URLs, no documents.
SemanticMemory ==
    [documents_paths |-> <<>>, documents_web_urls |-> <<>>, documents |-> <<>>,
     filename_to_document |-> {}]

SemanticInit ==
    /\ mem = EpisodicMemory(0, 0)
    /\ retrieved = <<>>
    /\ last = NoOp
    /\ proc = SemanticMemory
    /\ ops = 0
    /\ held = None
    /\ run = NoRun

SAddDocumentsPath ==
    /\ ops < MaxSemanticOps
    /\ \E documents_path \in DocumentsPaths :
         /\ proc' = add_documents_path(proc, documents_path)
         /\ last' = [op |-> "add_documents_path", args |-> <<documents_path>>,
                     raised |-> NoException, pre |-> proc]
    /\ ops' = ops + 1
    /\ UNCHANGED <<mem, retrieved, held, run>>

SAddWebUrls ==
    /\ ops < MaxSemanticOps
    /\ \E web_urls \in UNION {[1..n -> WebUrls] : n \in 0..MaxUrls} :
         /\ proc' = add_web_urls(proc, web_urls)
         /\ last' = [op |-> "add_web_urls", args |-> web_urls,
                     raised |-> NoException, pre |-> proc]
    /\ ops' = ops + 1
    /\ UNCHANGED <<mem, retrieved, held, run>>

SemanticNext == SAddDocumentsPath \/ SAddWebUrls

SpecSemantic == SemanticInit /\ [][SemanticNext]_vars

(***************************************************************************)
(* A program under simulation control. The process starts with the cache   *)
(* file an earlier run of a program left on disk, if any.                  *)
(***************************************************************************)
MaxSimOps == 3

MakeAccessible(a, b) == Invoke(Call("make_agent_accessible", "TinyPerson", a, b, <<>>))
Define(a, value) == Invoke(Call("define", "TinyPerson", a, NoneRef, <<value>>))
Listen(a, speech) == Invoke(Call("listen", "TinyPerson", a, NoneRef, speech))
DefineRelationships(a, shape, rels, replace) ==
    Invoke(Call("define_relationships", "TinyPerson", a, NoneRef, <<shape, rels, replace>>))

Friend == <<<<"Name", "B">>, <<"Description", "friend">>>>

\* Earlier runs: agents made inside the simulation, or before it began.
EarlierRuns ==
    { <<>>,
      <<Begin(None, FALSE), Create("A"), Create("B"), MakeAccessible(1, 2),
        Define(1, 1), End>>,
      <<Create("A"), Create("B"), Begin(None, FALSE), MakeAccessible(1, 2),
        Listen(2, <<"x">>), End>> }

\* How the program under study starts.
Openings ==
    { <<>>,
      <<Create("A"), Create("B")>>,
      <<Begin(None, FALSE), Create("A"), Create("B")>>,
      <<Create("A"), Create("B"), Begin(None, FALSE), Listen(1, <<"x">>), End>> }

\* The statements the program may run next.
Statements(p) ==
    {Begin(c, k) : c \in {None, Some("f2")}, k \in BOOLEAN}
    \cup {End, Checkpoint, Reset, Restart}
    \cup (IF FirstFreeAgent(p) # NoneRef THEN {Create(n) : n \in {"A", "C"}} ELSE {})
    \cup {AddFaculty(a, "F") : a \in Alive(p)}
    \cup {MakeAccessible(ab[1], ab[2]) : ab \in {x \in Alive(p) \X Alive(p) : x[1] # x[2]}}
    \cup {Define(a, 1) : a \in Alive(p)}
    \cup {Listen(a, <<"x">>) : a \in Alive(p)}
    \cup {DefineRelationships(a, "list", <<Friend>>, TRUE) : a \in Alive(p)}
    \cup {DefineRelationships(a, "dict", <<Friend>>, r) : a \in Alive(p), r \in BOOLEAN}

SimInit ==
    /\ mem = EpisodicMemory(0, 0)
    /\ retrieved = <<>>
    /\ last = NoOp
    /\ \E earlier \in EarlierRuns, opening \in Openings :
         proc = Run(Process(Run(FreshProcess, earlier, 1).files), opening, 1)
    /\ ops = 0
    /\ held = None
    /\ run = NoRun

SimStatement ==
    /\ ops < MaxSimOps
    /\ \E st \in Statements(proc) :
         LET q == Apply(proc, st)
         IN /\ proc' = q
            /\ last' = [op |-> st.op, args |-> st, raised |-> q.exc, pre |-> proc]
    /\ ops' = ops + 1
    /\ UNCHANGED <<mem, retrieved, held, run>>

\* state = agent.encode_complete_state(), kept by the program.
SimEncode ==
    /\ ops < MaxSimOps
    /\ \E a \in Alive(proc) :
         /\ AgentEncodable(proc, a)
         /\ held' = Some([agent |-> a, state |-> agent_encode_complete_state(proc, a),
                          _accessible_agents |-> proc.agents[a]._accessible_agents,
                          _mental_faculties |-> proc.agents[a]._mental_faculties])
         /\ last' = [op |-> "encode_complete_state", args |-> [agent |-> a],
                     raised |-> NoException, pre |-> proc]
    /\ ops' = ops + 1
    /\ UNCHANGED <<mem, retrieved, proc, run>>

\* agent.decode_complete_state(state) with the state kept earlier.
SimDecode ==
    /\ ops < MaxSimOps
    /\ ~IsNone(held)
    /\ proc.agents[Val(held).agent].alive
    /\ LET q == agent_decode_complete_state([proc EXCEPT !.exc = NoException],
                                            Val(held).agent, Val(held).state)
       IN /\ proc' = q
          /\ last' = [op |-> "decode_complete_state", args |-> [agent |-> Val(held).agent],
                      raised |-> q.exc, pre |-> proc]
    /\ ops' = ops + 1
    /\ UNCHANGED <<mem, retrieved, held, run>>

SimNext == SimStatement \/ SimEncode \/ SimDecode

SpecSim == SimInit /\ [][SimNext]_vars

(***************************************************************************)
(* The same program run twice: a first process runs it and leaves its      *)
(* cache file, a fresh process then runs it again statement by statement.  *)
(***************************************************************************)
MaxCalls == 3

\* The program creates its two agents before or after it begins.
ProgramOpenings ==
    { <<Begin(None, FALSE), Create("A"), Create("B")>>,
      <<Create("A"), Create("B"), Begin(None, FALSE)>> }

\* The top-level transactional calls the program may make.
ProgramCalls ==
    {MakeAccessible(1, 2), MakeAccessible(2, 1), Define(1, 1), Listen(2, <<"x">>),
     DefineRelationships(1, "list", <<Friend>>, TRUE),
     DefineRelationships(1, "dict", <<Friend>>, TRUE)}

FinalState(p) == [agents |-> p.agents, worlds |-> p.worlds]

ReplayInit ==
    /\ mem = EpisodicMemory(0, 0)
    /\ retrieved = <<>>
    /\ last = NoOp
    /\ ops = 0
    /\ held = None
    /\ \E opening \in ProgramOpenings :
         /\ proc = Run(FreshProcess, opening, 1)
         /\ run = [phase |-> 1, program |-> opening, pc |-> 0]

\* First run: one more call.
FirstRunCall ==
    /\ run.phase = 1
    /\ ops < MaxCalls
    /\ \E st \in ProgramCalls :
         LET q == Apply(proc, st)
         IN /\ proc' = q
            /\ last' = [op |-> st.op, args |-> st, raised |-> q.exc, pre |-> proc]
            /\ run' = [run EXCEPT !.program = Append(@, st)]
    /\ ops' = ops + 1
    /\ UNCHANGED <<mem, retrieved, held>>

\* First run: end() or checkpoint(), then the process exits and a fresh one
\* starts with the files the first left.
FirstRunFinishes ==
    /\ run.phase = 1
    /\ ops > 0
    /\ \E st \in {End, Checkpoint} :
         LET q == Apply(proc, st)
         IN /\ proc' = Process(q.files)
            /\ last' = [op |-> st.op, args |-> st, raised |-> q.exc, pre |-> proc]
            /\ run' = [phase |-> 2, program |-> Append(run.program, st), pc |-> 1,
                       first |-> FinalState(q)]
    /\ UNCHANGED <<mem, retrieved, held, ops>>

\* Second run: the next statement of the same program.
SecondRunStatement ==
    /\ run.phase = 2
    /\ run.pc <= Len(run.program)
    /\ LET q == Apply(proc, run.program[run.pc])
       IN /\ proc' = q
          /\ last' = [op |-> run.program[run.pc].op, args |-> run.program[run.pc],
                      raised |-> q.exc, pre |-> proc]
    /\ run' = [run EXCEPT !.pc = @ + 1]
    /\ UNCHANGED <<mem, retrieved, held, ops>>

ReplayNext == FirstRunCall \/ FirstRunFinishes \/ SecondRunStatement

SpecReplay == ReplayInit /\ [][ReplayNext]_vars

(***************************************************************************)
(* Claims about the episodic memory views (checked under SpecMem)          *)
(***************************************************************************)
FirstEvents(m, p) == SubSeq(m.memory, 1, Min(p, Len(m.memory)))
LastEvents(m, t) ==
    SubSeq(m.memory, Len(m.memory) - Min(t, Len(m.memory)) + 1, Len(m.memory))

C8_Expected(m, first_n, last_n, include_omission_info) ==
    IF ~IsNone(first_n) /\ ~IsNone(last_n)
    THEN FirstEvents(m, Val(first_n))
             \o (IF include_omission_info THEN <<MEMORY_BLOCK_OMISSION_INFO>> ELSE <<>>)
             \o LastEvents(m, Val(last_n))
    ELSE IF ~IsNone(first_n) THEN FirstEvents(m, Val(first_n))
    ELSE IF ~IsNone(last_n) THEN LastEvents(m, Val(last_n))
    ELSE m.memory

\* C8: retrieve(first_n=p, last_n=t, include_omission_info) returns the first p
\* events, then one omission marker iff include_omission_info, then the last t
\* events; with one side given just that side's events; with neither the whole log.
C8_RetrieveAsClaimed ==
    last.op = "retrieve" =>
        retrieved = C8_Expected(mem, last.first_n, last.last_n, last.include_omission_info)

C9_Expected(m, include_omission_info) ==
    LET n == Len(m.memory)
        tail == Min(m.lookback_length, n - m.fixed_prefix_length)
    IN FirstEvents(m, m.fixed_prefix_length)
           \o (IF include_omission_info THEN <<MEMORY_BLOCK_OMISSION_INFO>> ELSE <<>>)
           \o (IF tail > 0 THEN LastEvents(m, tail) ELSE <<>>)

\* C9: retrieve_recent returns the first min(P, n) events, then the marker when
\* include_omission_info, then the last min(L, n - P) events when that number is
\* positive, and nothing more otherwise.
C9_RetrieveRecentAsClaimed ==
    last.op = "retrieve_recent" =>
        retrieved = C9_Expected(mem, last.include_omission_info)

(***************************************************************************)
(* Claims about worlds                                                     *)
(***************************************************************************)
Members(p) == p.worlds[TheWorld].agents
Accessible(p, a) == p.agents[a]._accessible_agents
Memory(p, a) == p.agents[a].episodic_memory.memory
StepReturned == last.op = "_step" /\ last.raised = NoException

\* C4: when _step returns, every agent of the world has an empty buffer of
\* pending actions.
C4_StepDrainsBuffers ==
    StepReturned =>
        \A i \in 1..Len(Members(proc)) : proc.agents[Members(proc)[i]]._actions_buffer = <<>>

\* A step returned in which actions were dispatched and before which some
\* agent of the world still had actions of an earlier act in its buffer.
C4_Witness ==
    /\ StepReturned
    /\ proc.dispatched # <<>>
    /\ \E i \in 1..Len(Members(proc)) :
           last.pre.agents[Members(proc)[i]]._actions_buffer # <<>>

NotSource(a) == a # last.args.source

\* C5: broadcast(x, source=A) appends exactly one user CONVERSATION event
\* with content x to every agent of the world other than A, in the order of
\* the agents list, and nothing to A.
C5_BroadcastReachesAllButSource ==
    last.op = "broadcast" =>
        /\ last.raised = NoException
        /\ proc.deliveries = SelectSeq(Members(last.pre), NotSource)
        /\ \A a \in AgentIds :
             IF Contains(Members(last.pre), a) /\ a # last.args.source
             THEN /\ Len(Memory(proc, a)) = Len(Memory(last.pre, a)) + 1
                  /\ SubSeq(Memory(proc, a), 1, Len(Memory(last.pre, a))) = Memory(last.pre, a)
                  /\ LET ev == Memory(proc, a)[Len(Memory(proc, a))]
                     IN /\ ev.role = "user"
                        /\ ev.content[1] = "stimuli"
                        /\ ev.content[2] = "CONVERSATION"
                        /\ SubSeq(ev.content, 4, Len(ev.content)) = last.args.speech
             ELSE Memory(proc, a) = Memory(last.pre, a)

\* A broadcast whose source is itself one of three agents of the world.
C5_Witness ==
    /\ last.op = "broadcast"
    /\ Len(Members(last.pre)) = 3
    /\ Contains(Members(last.pre), last.args.source)
    /\ Len(proc.deliveries) = 2

ReachOutToMember(p, d) ==
    /\ d.action.type = "REACH_OUT"
    /\ get_agent_by_name(p, TheWorld, d.action.target) # NoneRef

\* C6: in a TinyWorld, after a REACH_OUT from A toward a member B has been
\* dispatched B is accessible to A and A to B; and as long as accessibility
\* has changed through REACH_OUT only, it is symmetric among the agents.
C6_ReachOutSymmetric ==
    /\ (last.op \in {"_handle_actions", "_step"} /\ proc.worlds[TheWorld].kind = "TinyWorld") =>
          \A i \in 1..Len(proc.dispatched) :
              LET d == proc.dispatched[i]
              IN ReachOutToMember(proc, d) =>
                    /\ Contains(Accessible(proc, d.source),
                                get_agent_by_name(proc, TheWorld, d.action.target))
                    /\ Contains(Accessible(proc, get_agent_by_name(proc, TheWorld, d.action.target)),
                                d.source)
    /\ ~proc.direct_accessibility =>
          \A a \in AgentIds, b \in AgentIds :
              Contains(Accessible(proc, a), b) <=> Contains(Accessible(proc, b), a)

\* A REACH_OUT from one agent toward another, a member of the TinyWorld, was
\* dispatched and made the target newly accessible.
C6_Witness ==
    /\ last.op = "_handle_actions"
    /\ proc.worlds[TheWorld].kind = "TinyWorld"
    /\ last.args.action.type = "REACH_OUT"
    /\ LET b == get_agent_by_name(proc, TheWorld, last.args.action.target)
       IN /\ b # NoneRef
          /\ b # last.args.source
          /\ ~Contains(Accessible(last.pre, last.args.source), b)
          /\ Contains(Accessible(proc, last.args.source), b)

SocialReachOut ==
    /\ last.op = "_handle_actions"
    /\ last.pre.worlds[TheWorld].kind = "TinySocialNetwork"
    /\ last.args.action.type = "REACH_OUT"

InRelationWithTarget ==
    is_in_relation_with(last.pre, TheWorld, last.args.source,
                        get_agent_by_name(last.pre, TheWorld, last.args.action.target))

\* C7: in a TinySocialNetwork a REACH_OUT grants access only if source and
\* target are in a relation; otherwise no accessible list changes.
C7_SocialReachOutNeedsRelation ==
    (SocialReachOut /\ ~InRelationWithTarget) =>
        \A a \in AgentIds :
            /\ Accessible(proc, a) = Accessible(last.pre, a)
            /\ proc.agents[a]._configuration.currently_accessible_agents
                 = last.pre.agents[a]._configuration.currently_accessible_agents

\* A REACH_OUT toward a member of the network that is in no relation with the
\* source was handled, and the source was told so.
C7_Witness ==
    /\ SocialReachOut
    /\ ~InRelationWithTarget
    /\ get_agent_by_name(last.pre, TheWorld, last.args.action.target) # NoneRef
    /\ get_agent_by_name(last.pre, TheWorld, last.args.action.target) # last.args.source
    /\ proc.deliveries = <<last.args.source>>

(***************************************************************************)
(* Claims about simulation control                                         *)
(***************************************************************************)
\* The last statement was a call of a transactional method, made while a
\* simulation was started, and it returned.
TopLevelCallReturned ==
    /\ last.op = "call"
    /\ last.pre.current_simulation_id # NoneName
    /\ last.pre.simulation.status = "started"
    /\ last.raised = NoException

ExecutionTrace(p) == p.simulation.execution_trace
CachedTrace(p) == p.simulation.cached_trace

\* C1: while a simulation is started, every top-level transactional call that
\* returns lengthens the execution trace by exactly one node, and the calls
\* nested in it add none to either trace.
C1_TraceGrowsByOne ==
    TopLevelCallReturned =>
        /\ Len(ExecutionTrace(proc)) = Len(ExecutionTrace(last.pre)) + 1
        /\ Len(CachedTrace(proc)) <= Len(CachedTrace(last.pre)) + 1

\* The call was served from the cache: a node was appended and no body ran.
ServedFromCache ==
    /\ TopLevelCallReturned
    /\ Len(ExecutionTrace(proc)) = Len(ExecutionTrace(last.pre)) + 1
    /\ proc.bodies = last.pre.bodies

\* C2: right after a call served from the cache, re-encoding the live
\* simulation yields exactly the cached node's encoded state.
C2_CacheHitRestoresState ==
    ServedFromCache =>
        /\ SimulationEncodable(proc)
        /\ encode_simulation_state(proc)
             = ExecutionTrace(proc)[Len(ExecutionTrace(proc))].state

HeldAgent == proc.agents[Val(held).agent]

\* C10: decode_complete_state(encode_complete_state(agent)) restores name,
\* episodic_memory, _mental_faculties, _configuration and the accessible-agent
\* references to the values that were encoded.
C10_DecodeRestoresEncoded ==
    last.op = "decode_complete_state" =>
        /\ last.raised = NoException
        /\ HeldAgent.name = Val(held).state.name
        /\ memory_to_json(HeldAgent.episodic_memory) = Val(held).state.episodic_memory
        /\ HeldAgent._mental_faculties = Val(held)._mental_faculties
        /\ HeldAgent._configuration = Val(held).state._configuration
        /\ HeldAgent._accessible_agents = Val(held)._accessible_agents

SecondRunFinished == run.phase = 2 /\ run.pc > Len(run.program)

\* C3: a second run from a fresh process, with the cache file of the first
\* and the same calls in the same order, executes no wrapped method body and
\* ends in the same state as the first run.
C3_SecondRunServedFromCache ==
    SecondRunFinished =>
        /\ proc.bodies = 0
        /\ FinalState(proc) = run.first


(***************************************************************************)
(* Claims about acting                                                     *)
(***************************************************************************)
ActCalled == last.op \in {"act", "listen_and_act"}
ActReturned == ActCalled /\ last.raised = NoException

\* The actions the call appended to the actor's buffer, one per act step.
Performed ==
    SubSeq(proc.agents[TheActor]._actions_buffer,
           Len(last.pre.agents[TheActor]._actions_buffer) + 1,
           Len(proc.agents[TheActor]._actions_buffer))

\* The language model gives one and the same non-DONE action for ever.
SameActionForEver(oracle) ==
    /\ oracle.forever.wf = "ok"
    /\ oracle.forever.type # "DONE"
    /\ \A i \in 1..Len(oracle.pending) : oracle.pending[i] = oracle.forever

\* C11 as stated: under a language model that always returns the same
\* non-DONE action, act stops after exactly 3 actions.
C11_StopsAfterThree ==
    (ActCalled /\ SameActionForEver(last.args.oracle)) => Len(Performed) = 3

\* C11: under a language model that always returns the same non-DONE action,
\* act returns after exactly 5 actions, all of them that action: repetition
\* is looked for only once more than 4 actions have been produced.
C11_StopsAfterFive ==
    (ActCalled /\ SameActionForEver(last.args.oracle)) =>
        /\ last.raised = NoException
        /\ Len(Performed) = 5
        /\ \A i \in 1..Len(Performed) : Performed[i] = Action(last.args.oracle.forever)

C11_Witness ==
    /\ last.op = "act"
    /\ SameActionForEver(last.args.oracle)
    /\ Len(Performed) = 5

\* C12: one call of act performs at most MAX_ACTIONS_BEFORE_DONE actions.
C12_AtMostMaxActions ==
    ActCalled => Len(Performed) <= MAX_ACTIONS_BEFORE_DONE

\* The list act hands back when return_actions is set.
Returned == proc.ret.v
StoppedByActionLimit == Len(Returned) > MAX_ACTIONS_BEFORE_DONE
StoppedByRepetition == Len(Returned) > 4 /\ LastThreeEqual(Returned)

ActEvents ==
    SubSeq(Memory(proc, TheActor), Len(Memory(last.pre, TheActor)) + 1,
           Len(Memory(proc, TheActor)))

IsThought(e) == e.role = "user" /\ e.content[2] = "THOUGHT"
LacksKey(e) == ~(Contains(e.content, "action") /\ Contains(e.content, "cognitive_state"))

\* Every attempt of an act step opens with a thought. The attempt succeeded
\* when a complete response follows it, failed with KeyError when a response
\* lacking a key follows it, and raised something else when none follows.
Outcome(E, i) ==
    IF i = Len(E) \/ E[i + 1].role # "assistant" THEN "raised"
    ELSE IF LacksKey(E[i + 1]) THEN "KeyError"
    ELSE "ok"

Attempts(E) ==
    LET idx == SelectSeq([i \in 1..Len(E) |-> i], LAMBDA i : IsThought(E[i]))
    IN [k \in 1..Len(idx) |-> Outcome(E, idx[k])]

KeyErrorRun(O, k, n) == k + n - 1 <= Len(O) /\ \A j \in k..(k + n - 1) : O[j] = "KeyError"

\* C14: an act step is attempted at most ActRetries times: ActRetries failures
\* in a row happen only as the last attempts of a call that raises KeyError,
\* the call raises KeyError only after them, every success is one action
\* performed, and an attempt that raises another exception is the last one
\* and its exception reaches the caller.
C14_RetriesKeyErrorOnly ==
    ActCalled =>
        LET O == Attempts(ActEvents)
        IN /\ \A k \in 1..Len(O) :
                  KeyErrorRun(O, k, ActRetries) =>
                      k + ActRetries - 1 = Len(O) /\ last.raised = "KeyError"
           /\ last.raised = "KeyError" =>
                  Len(O) >= ActRetries /\ KeyErrorRun(O, Len(O) - ActRetries + 1, ActRetries)
           /\ Len(SelectSeq(O, LAMBDA o : o = "ok")) = Len(Performed)
           /\ \A k \in 1..Len(O) :
                  O[k] = "raised" => k = Len(O) /\ last.raised = "TypeError"
           /\ last.raised = "TypeError" => Len(O) >= 1 /\ O[Len(O)] = "raised"
           /\ last.raised \in {NoException, "KeyError", "TypeError"}

\* A call that performed an action, then failed ActRetries times and raised.
C14_Witness ==
    /\ ActCalled
    /\ last.raised = "KeyError"
    /\ Len(Performed) = 1
    /\ Len(Attempts(ActEvents)) = ActRetries + 1


(***************************************************************************)
(* Claims about the simulation lifecycle                                   *)
(***************************************************************************)
Started(p) == p.simulation_created /\ p.simulation.status = "started"
LifecycleUnchanged ==
    /\ proc.simulation.status = last.pre.simulation.status
    /\ proc.current_simulation_id = last.pre.current_simulation_id

\* C15: begin while a simulation is started and end while none is started
\* raise and leave status and current id as they were; current_simulation()
\* gives a simulation exactly when one is started.
C15_BeginEndGuarded ==
    /\ (last.op = "begin" /\ Started(last.pre)) =>
           last.raised = "ValueError" /\ LifecycleUnchanged
    /\ (last.op = "end" /\ ~Started(last.pre)) =>
           last.raised = "ValueError" /\ LifecycleUnchanged
    /\ (last.op = "begin" /\ ~Started(last.pre)) =>
           last.raised = NoException /\ Started(proc)
    /\ (last.op = "end" /\ Started(last.pre)) =>
           last.raised = NoException /\ ~Started(proc)
    /\ HasCurrentSimulation(proc) <=> Started(proc)

\* end() was called with no simulation started, after one had been run.
C15_Witness ==
    /\ last.op = "end"
    /\ ~Started(last.pre)
    /\ last.pre.simulation_created
    /\ last.raised = "ValueError"

BeginReturned == last.op = "begin" /\ last.raised = NoException
FileTrace(p, cache_path) ==
    IF IsNone(p.files[cache_path]) THEN <<>> ELSE Val(p.files[cache_path])

\* C16: a begin() that returns leaves the simulation started, its registries
\* of agents and worlds and the process-wide ones empty, and the cached trace
\* equal to the content of the cache file.
C16_BeginStartsClean ==
    BeginReturned =>
        /\ Started(proc)
        /\ proc.simulation.agents = <<>>
        /\ \A n \in AgentNames : proc.simulation.name_to_agent[n] = NoneRef
        /\ proc.simulation.environments = <<>>
        /\ \A n \in WorldNames : proc.simulation.name_to_environment[n] = NoneRef
        /\ \A n \in AgentNames : proc.all_agents[n] = NoneRef
        /\ \A n \in WorldNames : proc.all_environments[n] = NoneRef
        /\ CachedTrace(proc) = FileTrace(proc, proc.simulation.cache_path)

\* C17: when checkpoint() or end() returns, or a top-level transactional
\* call returns under auto_checkpoint, the cache file holds the cached trace.
C17_FileHoldsCachedTrace ==
    (\/ last.op \in {"checkpoint", "end"} /\ Started(last.pre) /\ last.raised = NoException
     \/ TopLevelCallReturned /\ last.pre.simulation.auto_checkpoint) =>
        FileTrace(proc, proc.simulation.cache_path) = CachedTrace(proc)


(***************************************************************************)
(* Claims about action dispatch                                            *)
(***************************************************************************)
Dispatched(type) == last.op = "_handle_actions" /\ last.args.action.type = type

\* The events the call stored in the memory of agent a.
NewEvents(a) ==
    SubSeq(Memory(proc, a), Len(Memory(last.pre, a)) + 1, Len(Memory(proc, a)))

IsSocial(e) == e.role = "user" /\ e.content[2] = "SOCIAL"
IsRejection(e) ==
    /\ IsSocial(e)
    /\ Len(e.content) = 5
    /\ e.content[5] = " is not in the same relation as you, so you cannot reach out to them."

\* The agent in the world's list of agents that carries the name, if any.
NamedMember(p, name) ==
    IF \E a \in AgentIds : Contains(Members(p), a) /\ p.agents[a].name = name
    THEN CHOOSE a \in AgentIds : Contains(Members(p), a) /\ p.agents[a].name = name
    ELSE NoneRef

\* C18: in a TinyWorld the dispatch of a REACH_OUT never raises, whatever
\* its target; toward another member it makes the two accessible to each
\* other and gives each exactly one SOCIAL stimulus.
C18_ReachOutAlwaysSucceeds ==
    (Dispatched("REACH_OUT") /\ last.pre.worlds[TheWorld].kind = "TinyWorld") =>
        /\ last.raised = NoException
        /\ LET a == last.args.source
               b == NamedMember(last.pre, last.args.action.target)
           IN (b # NoneRef /\ b # a) =>
                 /\ Contains(Accessible(proc, a), b)
                 /\ Contains(Accessible(proc, b), a)
                 /\ Len(SelectSeq(NewEvents(a), IsSocial)) = 1
                 /\ Len(SelectSeq(NewEvents(b), IsSocial)) = 1

\* C19: in a TinySocialNetwork the rejection stimulus goes to the sender,
\* once, exactly when the target is in no relation with it, and to nobody
\* else; within a relation the two success stimuli are given and no
\* rejection.
C19_RejectionOnlyOutsideRelation ==
    SocialReachOut =>
        IF InRelationWithTarget
        THEN /\ \A a \in AgentIds : SelectSeq(NewEvents(a), IsRejection) = <<>>
             /\ proc.deliveries =
                    <<last.args.source,
                      get_agent_by_name(last.pre, TheWorld, last.args.action.target)>>
        ELSE /\ \A a \in AgentIds :
                    Len(SelectSeq(NewEvents(a), IsRejection))
                        = (IF a = last.args.source THEN 1 ELSE 0)
             /\ proc.deliveries = <<last.args.source>>

\* A TALK whose target resolves to agent b (NoneRef when to nobody) was
\* delivered as the claim says.
TalkDelivered(b) ==
    LET receivers == IF b # NoneRef THEN <<b>>
                     ELSE IF last.pre.worlds[TheWorld].broadcast_if_no_target
                     THEN SelectSeq(Members(last.pre), NotSource)
                     ELSE <<>>
    IN /\ last.raised = NoException
       /\ proc.deliveries = receivers
       /\ \A a \in AgentIds :
             NewEvents(a) =
                 IF Contains(receivers, a)
                 THEN <<[role |-> "user",
                         content |-> Stimulus("CONVERSATION", last.args.action.content,
                                              last.pre.agents[last.args.source].name),
                         simulation_timestamp |-> iso_datetime(last.pre, a)]>>
                 ELSE <<>>

OtherActionChangesNothing ==
    (last.op = "_handle_actions" /\ last.args.action.type \notin {"TALK", "REACH_OUT"}) =>
        /\ last.raised = NoException
        /\ proc.agents = last.pre.agents
        /\ proc.worlds = last.pre.worlds

\* C20: a TALK is delivered as one CONVERSATION stimulus, carrying the
\* content and the sender as source, to the member the target names;
\* without such a member to every member but the sender when
\* broadcast_if_no_target is set, else to nobody. An action of another type
\* than TALK and REACH_OUT changes no agent and no world.
C20_TalkDelivery ==
    /\ Dispatched("TALK") => TalkDelivered(NamedMember(last.pre, last.args.action.target))
    /\ OtherActionChangesNothing

\* The same with the target looked up in the world's name index, as
\* get_agent_by_name does: this holds, the index is what fails to list
\* the members that add_relation added.
C20_TalkDeliveryByIndex ==
    /\ Dispatched("TALK") =>
          TalkDelivered(get_agent_by_name(last.pre, TheWorld, last.args.action.target))
    /\ OtherActionChangesNothing

\* C18 for the targets that name another member: this part holds.
C18_ReachOutToMemberSucceeds ==
    (Dispatched("REACH_OUT") /\ last.pre.worlds[TheWorld].kind = "TinyWorld"
       /\ NamedMember(last.pre, last.args.action.target) \notin {NoneRef, last.args.source}) =>
        C18_ReachOutAlwaysSucceeds


(***************************************************************************)
(* Claims about the invariants of agents and worlds                        *)
(***************************************************************************)
ListedNames(p, a) ==
    LET c == p.agents[a]._configuration.currently_accessible_agents
    IN [i \in 1..Len(c) |-> c[i].name]

AccessibleNames(p, a) ==
    LET l == p.agents[a]._accessible_agents
    IN [i \in 1..Len(l) |-> IF l[i] = NoneRef THEN NoneName ELSE p.agents[l[i]].name]

Range(s) == {s[i] : i \in 1..Len(s)}
Distinct(s) == \A i \in 1..Len(s), j \in 1..Len(s) : s[i] = s[j] => i = j

\* The configuration lists exactly the names of the accessible agents, once each.
AccessibleInSync(p) ==
    \A a \in Alive(p) :
        /\ Range(ListedNames(p, a)) = Range(AccessibleNames(p, a))
        /\ Distinct(ListedNames(p, a))
        /\ Distinct(AccessibleNames(p, a))

\* C21: make_agent_accessible and make_agent_inaccessible keep the names in
\* currently_accessible_agents equal to the names of the agents in
\* _accessible_agents, each once.
C21_AccessibleStaysInSync ==
    (last.op \in {"make_agent_accessible", "make_agent_inaccessible"}
       /\ AccessibleInSync(last.pre)) => AccessibleInSync(proc)


WorldsOf(p, a) == {w \in WorldIds : p.worlds[w].alive /\ Contains(p.worlds[w].agents, a)}

\* C22: an agent is in the agent list of at most one world, and its
\* environment is that world, or none when it is in no world.
C22_OneWorldPerAgent ==
    \A a \in Alive(proc) :
        /\ Cardinality(WorldsOf(proc, a)) <= 1
        /\ \A w \in WorldsOf(proc, a) : proc.agents[a].environment = w
        /\ WorldsOf(proc, a) = {} => proc.agents[a].environment = NoneRef

MemberNames(p, w) ==
    [i \in 1..Len(p.worlds[w].agents) |-> p.agents[p.worlds[w].agents[i]].name]

\* The index of world w maps the names of its agents, and no other name,
\* to those agents.
IndexMatchesAgents(p, w) ==
    /\ Distinct(MemberNames(p, w))
    /\ \A i \in 1..Len(p.worlds[w].agents) :
          p.worlds[w].name_to_agent[MemberNames(p, w)[i]] = p.worlds[w].agents[i]
    /\ \A n \in AgentNames :
          p.worlds[w].name_to_agent[n] # NoneRef => Contains(p.worlds[w].agents,
                                                            p.worlds[w].name_to_agent[n])

\* add_agent was called with an agent whose name another agent of the
\* world already carries.
AddedNamesake ==
    /\ last.op = "add_agent"
    /\ \E b \in AgentIds :
          /\ b # last.args.agent
          /\ Contains(last.pre.worlds[last.args.world].agents, b)
          /\ last.pre.agents[b].name = last.pre.agents[last.args.agent].name

\* C23: in every world the agents' names are pairwise distinct and the
\* name index maps exactly those names to those agents; adding another
\* agent under a name already present raises and leaves the world unchanged.
C23_IndexMatchesAgents ==
    /\ \A w \in WorldIds : proc.worlds[w].alive => IndexMatchesAgents(proc, w)
    /\ AddedNamesake =>
          /\ last.raised = "ValueError"
          /\ proc.worlds = last.pre.worlds
          /\ proc.agents = last.pre.agents


\* A call of one of the methods that change the configuration returned.
ConfigurationCallReturned ==
    /\ last.op = "call"
    /\ last.raised = NoException
    /\ last.args.call.fn \in {"define", "define_relationships", "make_agent_accessible",
                               "make_agent_inaccessible", "make_all_agents_inaccessible"}

\* C24: after a call that changes an agent's configuration the agent's
\* stored system message is the rendering of its current configuration.
C24_PromptFollowsConfiguration ==
    ConfigurationCallReturned =>
        proc.agents[last.args.call.self]._init_system_message
            = generate_agent_prompt(proc.agents[last.args.call.self])

(***************************************************************************)
(* Claims about restoring from the cache (checked under SpecSim)           *)
(***************************************************************************)
\* The node a call would be served from, once Transaction.__init__ has run.
HitsCache(p, call) ==
    LET q == transaction_init(p, call)
    IN /\ HasCurrentSimulation(p)
       /\ ~Raised(q)
       /\ q.simulation.status = "started"
       /\ is_transaction_event_cached(q, function_call_hash(q, call))

CachedNode(p) == p.simulation.cached_trace[execution_trace_position(p) + 2]

\* The cached state names an agent or a world the simulation does not hold.
NamesUnregistered(p, state) ==
    \/ \E i \in 1..Len(state.agents) :
           p.simulation.name_to_agent[state.agents[i].name] = NoneRef
    \/ \E i \in 1..Len(state.environments) :
           p.simulation.name_to_environment[state.environments[i].name] = NoneRef

HitOnUnregistered ==
    /\ last.op = "call"
    /\ HitsCache(last.pre, last.args.call)
    /\ NamesUnregistered(transaction_init(last.pre, last.args.call),
                         CachedNode(last.pre).state)

\* C25: a cache hit whose cached state names an agent or world missing from
\* the simulation's registries raises and restores nothing: the execution
\* trace is not advanced and no live agent or world is modified.
C25_FailedRestoreChangesNothing ==
    HitOnUnregistered =>
        /\ last.raised # NoException
        /\ proc.simulation.execution_trace = last.pre.simulation.execution_trace
        /\ proc.agents = last.pre.agents
        /\ proc.worlds = last.pre.worlds

(***************************************************************************)
(* Claims about the encoding of outputs (checked under SpecOutput)         *)
(***************************************************************************)
Decoded == last.op = "_decode_function_output"

IsEntity(x) == x.t \in {"TinyPerson", "TinyWorld"}

\* The named reference that stands for an entity.
NamedReference(p, x) ==
    IF x.t = "TinyPerson" THEN EncodedOutput("TinyPersonRef", p.agents[x.id].name, <<>>)
    ELSE EncodedOutput("TinyWorldRef", p.worlds[x.id].name, <<>>)

\* Decoding gives back the value for None and JSON values, and for an agent
\* or world the entity now registered under its name (None when there is none).
RoundTrip ==
    LET output == last.args.output
        result == proc.ret
    IN /\ output.t \in {"None", "JSON"} => result = output
       /\ output.t = "TinyPerson" =>
             /\ result.t \in {"TinyPerson", "None"}
             /\ result.t = "None" <=> proc.all_agents[proc.agents[output.id].name] = NoneRef
             /\ result.t = "TinyPerson" =>
                   /\ proc.agents[result.id].name = proc.agents[output.id].name
                   /\ proc.all_agents[proc.agents[result.id].name] = result.id
       /\ output.t = "TinyWorld" =>
             /\ result.t \in {"TinyWorld", "None"}
             /\ result.t = "None" <=>
                    proc.all_environments[proc.worlds[output.id].name] = NoneRef
             /\ result.t = "TinyWorld" =>
                   /\ proc.worlds[result.id].name = proc.worlds[output.id].name
                   /\ proc.all_environments[proc.worlds[result.id].name] = result.id

\* Every agent or world inside a returned list is encoded as a named reference.
EmbeddedAsReferences ==
    LET output == last.args.output
        encoded == last.args.encoded
    IN output.t = "JSON" =>
           \A i \in 1..Len(output.v) :
               IsEntity(output.v[i]) =>
                   /\ "type" \in DOMAIN encoded.value[i]
                   /\ encoded.value[i] = NamedReference(last.pre, output.v[i])

\* A returned list is encoded as it is, whatever it holds.
EncodedAsIs ==
    last.args.output.t = "JSON" =>
        last.args.encoded = EncodedOutput("JSON", NoneName, last.args.output.v)

Sent == last.op = "send_message"

Succeeded(attempt) == attempt.outcome \in Responses \cup {"cached"}

\* The failures the loop goes on after.
Retryable == BackedOff \cup {"APIConnectionError"}

\* send_message makes at most max_attempts attempts; a success or an invalid
\* request is its last attempt; it returns the response of the success, None
\* otherwise, and None after max_attempts failures.
AttemptsAndResult ==
    LET n == Len(last.attempts)
    IN /\ last.raised = NoException
       /\ last.i = n
       /\ n <= last.args.max_attempts
       /\ \A j \in 1..n :
             (Succeeded(last.attempts[j]) \/ last.attempts[j].outcome \in InvalidRequests)
                 => j = n
       /\ IF n > 0 /\ Succeeded(last.attempts[n])
          THEN /\ ~IsNone(last.ret)
               /\ Val(last.ret).content =
                      IF last.attempts[n].outcome = "cached"
                      THEN last.pre.api_cache[last.args.key]
                      ELSE last.attempts[n].outcome
          ELSE /\ IsNone(last.ret)
               /\ (n = 0 \/ last.attempts[n].outcome \notin InvalidRequests)
                      => n = last.args.max_attempts

\* After each failure of the given kinds the waiting time has been multiplied
\* by the backoff factor (2 standing for a waiting time of 0).
BacksOffAfter(kinds) ==
    \A j \in 1..Len(last.attempts) :
        last.attempts[j].outcome \in kinds =>
            last.attempts[j].after =
                (IF last.attempts[j].before <= 0 THEN 2 ELSE last.attempts[j].before)
                    * last.args.exponential_backoff_factor

\* C27: send_message makes at most max_attempts attempts and never raises; it
\* returns the first successful response, None at once on an invalid request,
\* None when the attempts are exhausted; after every retryable failure (rate
\* limit, network error, non-terminal error) the waiting time is multiplied
\* by the backoff factor.
C27_RetriesWithBackoff == Sent => (AttemptsAndResult /\ BacksOffAfter(Retryable))

MessageOf(response) == [role |-> "assistant", content |-> response]

\* C28: with the cache on, a request whose key is in the cache returns the
\* stored response without a call to the API; each key is fetched from the
\* API at most once and all the answers to one key are the same.
C28_CachedKeyFetchedOnce ==
    /\ (Sent /\ last.pre.cache_api_calls /\ last.args.max_attempts > 0
             /\ last.pre.api_cache[last.args.key] # Absent) =>
           /\ last.network = 0
           /\ last.ret = Some(MessageOf(last.pre.api_cache[last.args.key]))
    /\ \A k \in CacheKeys :
           /\ held.fetched[k] <= 1
           /\ Cardinality(held.answers[k]) <= 1

\* A key fetched by one call was asked again, and answered from the cache
\* although the API would have answered otherwise.
C28_Witness ==
    /\ Sent
    /\ last.pre.cache_api_calls
    /\ last.args.max_attempts > 0
    /\ held.fetched[last.args.key] = 1
    /\ last.network = 0
    /\ ~IsNone(last.ret)
    /\ last.args.script[1] \in Responses
    /\ Val(last.ret).content # last.args.script[1]

(***************************************************************************)
(* Claims about tool use (checked under SpecTools)                         *)
(***************************************************************************)
\* The tool consumes the action: its _process_action returns True.
Claims(tool, action) ==
    LET r == tool_process_action(tool, action)
    IN r.raised = NoException /\ r.ret = "True"

\* The tools that would consume the action, by position.
Claimants(tools, action) == {i \in 1..Len(tools) : Claims(tools[i], action)}

\* C29: ToolUse.process_action offers the action to its tools in list order,
\* returns true exactly when some tool claims it, stopping at the first such
\* tool, and returns false when no tool claims it.
C29_TrueWhenClaimed ==
    (last.op = "process_action" /\ last.raised = NoException) =>
        LET claimants == Claimants(last.pre.tools, last.args.action)
            first == CHOOSE i \in claimants : \A j \in claimants : i <= j
        IN /\ last.ret = "True" <=> claimants # {}
           /\ last.ret = "False" <=> claimants = {}
           /\ last.offered = [i \in 1..(IF claimants = {} THEN Len(last.pre.tools)
                                                          ELSE first) |-> i]

(***************************************************************************)
(* Claims about the semantic memory (checked under SpecSemantic)           *)
(***************************************************************************)
Occurrences(seq, x) == Cardinality({j \in 1..Len(seq) : seq[j] = x})

\* Every source asked for was already held before the call.
AllHeld ==
    /\ last.op \in {"add_documents_path", "add_web_urls"}
    /\ \A j \in 1..Len(last.args) :
           \/ Occurrences(last.pre.documents_paths, last.args[j]) > 0
           \/ Occurrences(last.pre.documents_web_urls, last.args[j]) > 0

\* C30: adding a path or URL the memory already holds changes nothing, and
\* after any sequence of add_documents_path / add_web_urls calls each path
\* or URL is listed at most once and its documents are loaded once.
C30_SourcesIngestedOnce ==
    /\ AllHeld => proc = last.pre
    /\ \A documents_path \in DocumentsPaths :
           /\ Occurrences(proc.documents_paths, documents_path) <= 1
           /\ Occurrences(proc.documents, [file_name |-> documents_path])
                  = Occurrences(proc.documents_paths, documents_path)
    /\ \A web_url \in WebUrls :
           /\ Occurrences(proc.documents_web_urls, web_url) <= 1
           /\ Occurrences(proc.documents, [id_ |-> web_url])
                  = Occurrences(proc.documents_web_urls, web_url)

(***************************************************************************)
(* Claims about the traces of a started simulation (checked under SpecSim) *)
(***************************************************************************)
\* A transactional call was made on a started simulation and its
\* Transaction was constructed.
CallOnStarted ==
    /\ last.op = "call"
    /\ Started(last.pre)
    /\ ~Raised(transaction_init(last.pre, last.args.call))

\* The cached trace has a node at index len(execution_trace) and its event
\* hash is the hash of the call.
HasNodeForCall ==
    LET q == transaction_init(last.pre, last.args.call)
        n == Len(ExecutionTrace(q))
    IN /\ Len(CachedTrace(q)) > n
       /\ CachedTrace(q)[n + 1].event_hash = function_call_hash(q, last.args.call)

NodeForCall == CachedTrace(last.pre)[Len(ExecutionTrace(last.pre)) + 1]

\* C31: while a simulation is started a transactional call is served from
\* the cache (no method body runs, the cached output is what it returns) if
\* and only if the cached trace has a node at index len(execution_trace)
\* whose event hash is the hash of the call.
C31_ServedIffNodeMatches ==
    CallOnStarted =>
        /\ proc.bodies = last.pre.bodies <=> HasNodeForCall
        /\ (HasNodeForCall /\ last.raised = NoException) =>
               proc.ret = decode_function_output(proc, NodeForCall.event_output)

\* A call was served from the cache and returned, and another node of the
\* cache was not used because its event differs.
C31_Witness ==
    /\ CallOnStarted
    /\ HasNodeForCall
    /\ last.raised = NoException
    /\ proc.bodies = last.pre.bodies

\* The call missed the cache at the top level and returned.
TopLevelMissReturned ==
    /\ CallOnStarted
    /\ ~HasNodeForCall
    /\ ~transaction_init(last.pre, last.args.call).simulation._under_transaction
    /\ last.raised = NoException

LastNode(trace) == trace[Len(trace)]

\* C32: on a top-level cache miss the cached trace is cut to the length of
\* the execution trace and the new node is appended to both, so after the
\* call the traces are equally long and both end with a node carrying the
\* call's event hash, encoded output and encoded post-call state.
C32_MissAppendsToBothTraces ==
    TopLevelMissReturned =>
        LET n == Len(ExecutionTrace(last.pre))
            m == IF Len(CachedTrace(last.pre)) < n THEN Len(CachedTrace(last.pre)) ELSE n
        IN /\ Len(ExecutionTrace(proc)) = n + 1
           /\ Len(CachedTrace(proc)) = Len(ExecutionTrace(proc))
           /\ SubSeq(CachedTrace(proc), 1, m) = SubSeq(CachedTrace(last.pre), 1, m)
           /\ \A trace \in {ExecutionTrace(proc), CachedTrace(proc)} :
                  /\ LastNode(trace).event_hash
                         = function_call_hash(last.pre, last.args.call)
                  /\ LastNode(trace).event_output = encode_function_output(proc, proc.ret)
                  /\ LastNode(trace).state = encode_simulation_state(proc)

(***************************************************************************)
(* Claims about the order of a step (checked under SpecWorld)              *)
(***************************************************************************)
BaseStepReturned == StepReturned /\ last.pre.worlds[TheWorld].kind = "TinyWorld"

IsAction(e) == e.role = "assistant" /\ ~LacksKey(e)

\* A CONVERSATION stimulus whose source is the agent b.
HeardFrom(e, b) ==
    /\ e.role = "user"
    /\ e.content[2] = "CONVERSATION"
    /\ e.content[3] = proc.agents[b].name

Indexes(E, Test(_)) == {k \in 1..Len(E) : Test(E[k])}

\* In the events the step stored in a's memory, what a heard from b comes
\* before all of a's own actions.
HeardBeforeActing(a, b) ==
    \A k \in Indexes(NewEvents(a), LAMBDA e : HeardFrom(e, b)) :
        \A n \in Indexes(NewEvents(a), IsAction) : k < n

HeardAfterActing(a, b) ==
    \A k \in Indexes(NewEvents(a), LAMBDA e : HeardFrom(e, b)) :
        \A n \in Indexes(NewEvents(a), IsAction) : n < k

\* C33: a step of a TinyWorld advances the clock by the given delta, not at
\* all when none is given, then every agent acts once in insertion order,
\* its actions being dispatched before the next agent acts: what an earlier
\* agent says is in a later agent's memory before that agent acts, what a
\* later agent says reaches an earlier agent after it has acted.
C33_StepOrder ==
    BaseStepReturned =>
        LET agents == Members(last.pre)
            delta == last.args.timedelta_per_step
        IN /\ proc.worlds[TheWorld].current_datetime
                  = last.pre.worlds[TheWorld].current_datetime
                       + (IF IsNone(delta) THEN 0 ELSE Val(delta))
           /\ Len(proc.ret.v) = Len(agents)
           /\ \A i \in 1..Len(agents) :
                  /\ proc.ret.v[i][1] = proc.agents[agents[i]].name
                  /\ Cardinality(Indexes(NewEvents(agents[i]), IsAction))
                         = Len(proc.ret.v[i][2])
                  /\ proc.ret.v[i][2] # <<>>
           /\ \A i \in 1..Len(agents), j \in 1..Len(agents) :
                  i < j => /\ HeardBeforeActing(agents[j], agents[i])
                           /\ HeardAfterActing(agents[i], agents[j])

\* A step with a delta in which the first agent spoke to the second and the
\* second then spoke to everybody.
C33_Witness ==
    /\ BaseStepReturned
    /\ ~IsNone(last.args.timedelta_per_step)
    /\ Len(Members(last.pre)) >= 2
    /\ \E k \in 1..Len(NewEvents(Members(last.pre)[2])) :
           HeardFrom(NewEvents(Members(last.pre)[2])[k], Members(last.pre)[1])
    /\ \E k \in 1..Len(NewEvents(Members(last.pre)[1])) :
           HeardFrom(NewEvents(Members(last.pre)[1])[k], Members(last.pre)[2])

(***************************************************************************)
(* Claims about running a social network (checked under SpecWorld)         *)
(***************************************************************************)
NetworkRun == last.op = "run" /\ last.pre.worlds[TheWorld].kind = "TinySocialNetwork"

\* The agents that share some relation with a.
Related(p, a) ==
    {b \in AgentIds : \E i \in 1..Len(p.worlds[TheWorld].relations) :
        p.worlds[TheWorld].relations[i] \in {<<a, b>>, <<b, a>>}}

\* C34: run(steps, timedelta_per_step) of a TinySocialNetwork performs the
\* steps: it returns, every agent's accessible agents are then exactly those
\* it shares a relation with, the clock has advanced by the delta once per
\* step and every agent has acted once per step.
C34_NetworkRunSteps ==
    NetworkRun =>
        /\ last.raised = NoException
        /\ Len(proc.ret.v) = last.args.steps
        /\ \A a \in Range(Members(proc)) : Range(Accessible(proc, a)) = Related(proc, a)
        /\ proc.worlds[TheWorld].current_datetime
              = last.pre.worlds[TheWorld].current_datetime
                  + (IF IsNone(last.args.timedelta_per_step) THEN 0
                     ELSE last.args.steps * Val(last.args.timedelta_per_step))
        /\ \A a \in Range(Members(proc)) :
              Cardinality(Indexes(NewEvents(a), IsAction)) >= last.args.steps

(***************************************************************************)
(* Claims about perceiving (checked under SpecAct)                         *)
(***************************************************************************)
StimulusType(method) ==
    CASE method \in {"listen", "listen_and_act"} -> "CONVERSATION"
      [] method \in {"see", "see_and_act"} -> "VISUAL"
      [] method = "socialize" -> "SOCIAL"
      [] method \in {"think", "think_and_act"} -> "THOUGHT"
      [] method = "internalize_goal" -> "INTERNAL_GOAL_FORMULATION"

PerceiveAndAct == {"listen_and_act", "see_and_act", "think_and_act"}

\* The event is a user event with one stimulus of the call's type and content.
IsStimulusOf(e, method, content) ==
    /\ e.role = "user"
    /\ Len(e.content) = 3 + Len(content)
    /\ e.content[1] = "stimuli"
    /\ e.content[2] = StimulusType(method)
    /\ SubSeq(e.content, 4, Len(e.content)) = content

\* C35: a perception call appends exactly one user event with one stimulus
\* of its type and content as the last event of episodic memory; in
\* listen_and_act, see_and_act and think_and_act that event comes before
\* every assistant event the call stores.
C35_PerceptionStoresOneStimulus ==
    /\ last.op \in Perceptions =>
          /\ last.raised = NoException
          /\ Len(NewEvents(TheActor)) = 1
          /\ IsStimulusOf(NewEvents(TheActor)[1], last.op, last.args.content)
          /\ SubSeq(Memory(proc, TheActor), 1, Len(Memory(last.pre, TheActor)))
                = Memory(last.pre, TheActor)
    /\ last.op \in PerceiveAndAct =>
          /\ NewEvents(TheActor) # <<>>
          /\ IsStimulusOf(NewEvents(TheActor)[1], last.op, <<"hello">>)
          /\ \A k \in 2..Len(NewEvents(TheActor)) :
                ~IsStimulusOf(NewEvents(TheActor)[k], last.op, <<"hello">>)

\* A combined call on an agent that already remembers something, storing
\* assistant events after the stimulus.
C35_Witness ==
    /\ last.op \in PerceiveAndAct
    /\ last.raised = NoException
    /\ Memory(last.pre, TheActor) # <<>>
    /\ \E k \in 2..Len(NewEvents(TheActor)) : NewEvents(TheActor)[k].role = "assistant"

(***************************************************************************)
(* Claims about one act step and about the end of act (under SpecAct)      *)
(***************************************************************************)
IsNudge(e) ==
    /\ IsThought(e)
    /\ SubSeq(e.content, 4, Len(e.content)) = <<"I will now act a bit, and then issue DONE.">>

\* The assistant event holds the action and a cognitive state.
IsEventOf(e, action) ==
    /\ e.role = "assistant"
    /\ ~LacksKey(e)
    /\ SubSeq(e.content, 1, 3) = <<"action", action.type, action.target>>

CognitiveStateOf(e) == SubSeq(e.content, Len(e.content) - 2, Len(e.content))

\* C36: for each action act returns, whatever the language model does, the
\* call stored exactly one THINK nudge followed by exactly one assistant
\* event, appended exactly one action to the buffer, and left the agent with
\* the goals, attention and emotions of the response.
C36_OneNudgeOneEventPerAction ==
    (last.op = "act" /\ last.raised = NoException) =>
        /\ Len(ActEvents) = 2 * Len(Performed)
        /\ \A i \in 1..Len(Performed) :
              /\ IsNudge(ActEvents[2 * i - 1])
              /\ IsEventOf(ActEvents[2 * i], Performed[i])
        /\ Performed # <<>> =>
              LET c == proc.agents[TheActor]._configuration
              IN <<c.current_goals[1], Val(c.current_attention), Val(c.current_emotions)>>
                   = CognitiveStateOf(ActEvents[Len(ActEvents)])

\* The guards of the loop, as they see the actions performed so far.
AtActionLimit == Len(Performed) > MAX_ACTIONS_BEFORE_DONE
AtRepetition ==
    /\ Len(Performed) > 4
    /\ Performed[Len(Performed)] = Performed[Len(Performed) - 1]
    /\ Performed[Len(Performed) - 1] = Performed[Len(Performed) - 2]

Nudges == Cardinality({k \in 1..Len(ActEvents) : IsNudge(ActEvents[k])})

C38_NoTransactionLeftOpen == ~proc.simulation._under_transaction

SameEvent(n1, n2) ==
    /\ n1.event_hash = n2.event_hash
    /\ n1.event_output = n2.event_output
    /\ n1.state = n2.state

IsPrefix(execution_trace, cached_trace) ==
    /\ Len(execution_trace) <= Len(cached_trace)
    /\ \A k \in 1..Len(execution_trace) : SameEvent(execution_trace[k], cached_trace[k])

\* C39: while a simulation is started the execution trace is a prefix of
\* the cached trace as to event hash, output and state; a call made when
\* the cached trace has nothing beyond the execution trace runs its body.
C39_ExecutionPrefixOfCache ==
    /\ Started(proc) => IsPrefix(ExecutionTrace(proc), CachedTrace(proc))
    /\ (CallOnStarted /\ Len(CachedTrace(last.pre)) <= Len(ExecutionTrace(last.pre))) =>
          proc.bodies > last.pre.bodies

(***************************************************************************)
(* Claims about what a step dispatches (checked under SpecWorld)           *)
(***************************************************************************)
\* The actions the step dispatched for agent a, in the order of dispatch.
DispatchedFor(a) ==
    LET of_a == SelectSeq(proc.dispatched, LAMBDA d : d.source = a)
    IN [k \in 1..Len(of_a) |-> of_a[k].action]

\* The actions the step's act call of the i-th agent returned.
ActedInStep(i) == [k \in 1..Len(proc.ret.v[i][2]) |-> Action(proc.ret.v[i][2][k])]

\* C40: the actions a step dispatches for an agent are those the agent's act
\* call of that step produced: what earlier calls made outside a step left
\* in the agent's buffer is not dispatched.
C40_StepDispatchesOwnActions ==
    BaseStepReturned =>
        \A i \in 1..Len(Members(last.pre)) :
            DispatchedFor(Members(last.pre)[i]) = ActedInStep(i)

====
